---------------------------- MODULE Spec2Model ----------------------------
(***************************************************************************)
(* A model of the variable-name standardizer: the terminology stores, the  *)
(* naming analyzers, convention application and the reviewers.             *)
(*                                                                         *)
(* Strings are sequences of characters; a character is a one-symbol string.*)
(* A Hangul syllable (one codepoint) is written as its romanisation with   *)
(* the prefix "h_", e.g. "h_sa" "h_yong" "h_ja" for the three codepoints   *)
(* of the Korean word for "user".  The descriptive texts of the built-in    *)
(* vocabulary and the analyzers' fixed evidence texts, which no operation  *)
(* looks into, are one-element sequences holding the whole text.           *)
(***************************************************************************)
EXTENDS Integers, Sequences, FiniteSets, TLC

(***************************************************************************)
(* Characters and the str methods the code uses.                           *)
(***************************************************************************)
LowerSeq == <<"a","b","c","d","e","f","g","h","i","j","k","l","m",
              "n","o","p","q","r","s","t","u","v","w","x","y","z">>
UpperSeq == <<"A","B","C","D","E","F","G","H","I","J","K","L","M",
              "N","O","P","Q","R","S","T","U","V","W","X","Y","Z">>
LowerSet == {LowerSeq[i] : i \in 1..26}
UpperSet == {UpperSeq[i] : i \in 1..26}
DigitSet == {"0","1","2","3","4","5","6","7","8","9"}
HangulSet == {"h_sa","h_yong","h_ja","h_bi","h_mil","h_beon","h_ho","h_i",
              "h_reum","h_de","h_teo","h_gyeol","h_gwa","h_sang","h_tae",
              "h_me","h_si","h_ji","h_o","h_ryu","h_mok","h_rok","h_gae",
              "h_su","h_hap","h_gye","h_seol","h_jeong","h_yo","h_cheong",
              "h_eung","h_dap","h_han","h_geul","h_myeong","h_yeong","h_mun"}

IsLower(c) == c \in LowerSet
IsUpper(c) == c \in UpperSet
IsHangul(c) == c \in HangulSet
\* str.isalnum on one character: letters of any script and digits
IsAlnum(c) == c \in LowerSet \cup UpperSet \cup DigitSet \cup HangulSet
\* the regex class \w (Unicode): letters, digits and the underscore
IsWordChar(c) == IsAlnum(c) \/ c = "_"
\* the regex class \s and the characters str.strip() removes: the space
\* and the line feed
IsSpace(c) == c \in {" ", "\n"}

LowerChar(c) == IF c \in UpperSet
                THEN LowerSeq[CHOOSE i \in 1..26 : UpperSeq[i] = c]
                ELSE c
UpperChar(c) == IF c \in LowerSet
                THEN UpperSeq[CHOOSE i \in 1..26 : LowerSeq[i] = c]
                ELSE c

\* str.lower()
StrLower(s) == [i \in 1..Len(s) |-> LowerChar(s[i])]
\* str.capitalize(): first character upper-cased, the rest lower-cased
Capitalize(s) == [i \in 1..Len(s) |-> IF i = 1 THEN UpperChar(s[i])
                                              ELSE LowerChar(s[i])]
\* c in s
HasChar(s, c) == \E i \in 1..Len(s) : s[i] = c
\* str.islower(): at least one cased character and no upper-case one
StrIsLower(s) == /\ \E i \in 1..Len(s) : IsLower(s[i])
                 /\ \A i \in 1..Len(s) : ~IsUpper(s[i])
\* str.isalnum(): non-empty and every character alphanumeric
StrIsAlnum(s) == Len(s) > 0 /\ \A i \in 1..Len(s) : IsAlnum(s[i])
\* str.replace(old, new) for a one-character old and a string new
ReplaceChar(s, old, new) ==
    LET F[i \in 0..Len(s)] ==
          IF i = 0 THEN <<>>
          ELSE F[i-1] \o (IF s[i] = old THEN new ELSE <<s[i]>>)
    IN F[Len(s)]

\* s.startswith(p, i): p occurs in s at position i
OccursAt(s, p, i) == /\ i + Len(p) - 1 <= Len(s)
                     /\ \A j \in 1..Len(p) : s[i + j - 1] = p[j]

\* str.replace(old, new) for a non-empty string old: left to right,
\* non-overlapping
RECURSIVE ReplaceFrom(_, _, _, _)
ReplaceFrom(s, old, new, i) ==
    IF i > Len(s) THEN <<>>
    ELSE IF OccursAt(s, old, i)
         THEN new \o ReplaceFrom(s, old, new, i + Len(old))
         ELSE <<s[i]>> \o ReplaceFrom(s, old, new, i + 1)
StrReplace(s, old, new) == ReplaceFrom(s, old, new, 1)

\* str.split(sep) for a one-character separator (empty parts are kept)
RECURSIVE SplitFrom(_, _, _, _)
SplitFrom(s, sep, i, cur) ==
    IF i > Len(s) THEN <<cur>>
    ELSE IF s[i] = sep
         THEN <<cur>> \o SplitFrom(s, sep, i + 1, <<>>)
         ELSE SplitFrom(s, sep, i + 1, Append(cur, s[i]))
StrSplit(s, sep) == SplitFrom(s, sep, 1, <<>>)

\* sep.join(parts)
RECURSIVE StrJoin(_, _)
StrJoin(parts, sep) ==
    IF Len(parts) = 0 THEN <<>>
    ELSE IF Len(parts) = 1 THEN parts[1]
    ELSE parts[1] \o sep \o StrJoin(Tail(parts), sep)

\* str.strip('_')
RECURSIVE StripUnderscore(_)
StripUnderscore(s) ==
    IF Len(s) = 0 THEN s
    ELSE IF s[1] = "_" THEN StripUnderscore(Tail(s))
    ELSE IF s[Len(s)] = "_" THEN StripUnderscore(SubSeq(s, 1, Len(s) - 1))
    ELSE s

(***************************************************************************)
(* The segmentation regex  [A-Z]?[a-z]+|[A-Z]+(?=[A-Z][a-z]|\b)            *)
(* as re.findall evaluates it: leftmost match, first alternative first,    *)
(* greedy with backtracking, then on from the end of the match.            *)
(***************************************************************************)
\* length of the maximal run of lower-case letters starting at i
RECURSIVE LowerRunLen(_, _)
LowerRunLen(s, i) ==
    IF i <= Len(s) /\ IsLower(s[i]) THEN 1 + LowerRunLen(s, i + 1) ELSE 0
\* length of the maximal run of upper-case letters starting at i
RECURSIVE UpperRunLen(_, _)
UpperRunLen(s, i) ==
    IF i <= Len(s) /\ IsUpper(s[i]) THEN 1 + UpperRunLen(s, i + 1) ELSE 0

\* the lookahead (?=[A-Z][a-z]|\b) at position p, just after an upper-case
\* letter: an upper-case letter followed by a lower-case one, or a word
\* boundary (the end of the string or a non-word character)
LookAhead(s, p) ==
    \/ p + 1 <= Len(s) /\ IsUpper(s[p]) /\ IsLower(s[p + 1])
    \/ p > Len(s)
    \/ p <= Len(s) /\ ~IsWordChar(s[p])

\* length of the match of the regex at position i, 0 when there is none
PartMatchLen(s, i) ==
    IF IsLower(s[i]) THEN LowerRunLen(s, i)
    ELSE IF IsUpper(s[i]) /\ i + 1 <= Len(s) /\ IsLower(s[i + 1])
         THEN 1 + LowerRunLen(s, i + 1)
    ELSE IF IsUpper(s[i])
         THEN LET k == UpperRunLen(s, i)
                  ok == {j \in 1..k : LookAhead(s, i + j)}
              IN IF ok = {} THEN 0
                 ELSE CHOOSE j \in ok : \A j2 \in ok : j2 <= j
    ELSE 0

RECURSIVE FindPartsFrom(_, _)
FindPartsFrom(s, i) ==
    IF i > Len(s) THEN <<>>
    ELSE LET n == PartMatchLen(s, i)
         IN IF n = 0 THEN FindPartsFrom(s, i + 1)
            ELSE <<SubSeq(s, i, i + n - 1)>> \o FindPartsFrom(s, i + n)
FindParts(s) == FindPartsFrom(s, 1)

(***************************************************************************)
(* Optional values: None is the empty sequence, Some(x) is <<x>>.          *)
(***************************************************************************)
None == <<>>
Some(x) == <<x>>
IsSome(o) == o # <<>>
TheVal(o) == o[1]

\* A Python dict: its keys in insertion order and its mapping.  Assigning to
\* a key that is present keeps the key's place.
EmptyDict == [order |-> <<>>, map |-> <<>>]
DictKeys(d) == DOMAIN d.map
DictGet(d, k) == d.map[k]
\* d[k] = v
DictPut(d, k, v) ==
    [order |-> IF k \in DOMAIN d.map THEN d.order ELSE Append(d.order, k),
     map |-> (k :> v) @@ d.map]
\* the assignments d[a[1]] = a[2] for a in assigns, one after another: a key
\* ends with the value last assigned to it, and a new key takes its place
\* in the order at its first assignment
DictPutAll(d, assigns) ==
    LET n == Len(assigns)
        isNew(i) == /\ assigns[i][1] \notin DOMAIN d.map
                    /\ \A j \in 1..(i - 1) : assigns[j][1] # assigns[i][1]
        last(k) == CHOOSE i \in 1..n :
                     /\ assigns[i][1] = k
                     /\ \A j \in (i + 1)..n : assigns[j][1] # k
        newKeys == {assigns[i][1] : i \in 1..n}
        firsts == SelectSeq([i \in 1..n |-> i], isNew)
    IN [order |-> d.order \o [i \in 1..Len(firsts) |-> assigns[firsts[i]][1]],
        map |-> [k \in (DOMAIN d.map) \cup newKeys |->
                   IF k \in newKeys THEN assigns[last(k)][2] ELSE d.map[k]]]
\* del d[k] for every k in ks
DictRemove(d, ks) ==
    [order |-> SelectSeq(d.order, LAMBDA k : k \notin ks),
     map |-> [k \in (DOMAIN d.map) \ ks |-> d.map[k]]]

(***************************************************************************)
(* NamingConvention: the enum members the detectors can return.            *)
(***************************************************************************)
EnumMember(v) == [kind |-> "enum", value |-> v]
SNAKE_CASE == EnumMember("snake_case")
CAMEL_CASE == EnumMember("camelCase")
PASCAL_CASE == EnumMember("PascalCase")
Conventions == {SNAKE_CASE, CAMEL_CASE, PASCAL_CASE}

(***************************************************************************)
(* TerminologyDictionary                                                   *)
(***************************************************************************)
TermEntry(term, standard_name, description, related_terms) ==
    [term |-> term, standard_variable_name |-> standard_name,
     description |-> description, related_terms |-> related_terms]

\* TerminologyDictionary.add_term: the entry is stored under key.lower()
\* and then under every related.lower(), each assignment overwriting
AddTermAssigns(key, standard_name, description, related_terms) ==
    LET entry == TermEntry(key, standard_name, description, related_terms)
    IN <<  <<StrLower(key), entry>> >> \o
       [i \in 1..Len(related_terms) |-> <<StrLower(related_terms[i]), entry>>]
DictAddTerm(terms, key, standard_name, description, related_terms) ==
    DictPutAll(terms,
               AddTermAssigns(key, standard_name, description, related_terms))

\* the add_term calls of _initialize_default_terms, in order
DefaultTermCalls == <<
    [key |-> <<"u","s","e","r">>,
     standard_name |-> <<"u","s","e","r">>,
     description |-> <<"System user or account holder">>,
     related_terms |->
       << <<"u","s","r">>, <<"u","s","u","a","r","i","o">>,
         <<"c","u","s","t","o","m","e","r">>, <<"c","l","i","e","n","t">> >>],
    [key |-> <<"u","s","e","r","_","i","d">>,
     standard_name |-> <<"u","s","e","r","_","i","d">>,
     description |-> <<"Unique identifier for a user">>,
     related_terms |->
       << <<"u","i","d">>, <<"u","s","e","r","i","d">>,
         <<"u","s","e","r","_","i","d","e","n","t","i","f","i","e","r">>,
         <<"u","s","r","_","i","d">> >>],
    [key |-> <<"u","s","e","r","n","a","m","e">>,
     standard_name |-> <<"u","s","e","r","n","a","m","e">>,
     description |-> <<"User's login name">>,
     related_terms |->
       << <<"u","s","e","r","_","n","a","m","e">>, <<"u","n","a","m","e">>,
         <<"l","o","g","i","n","_","n","a","m","e">>,
         <<"u","s","e","r","_","n","m">> >>],
    [key |-> <<"p","a","s","s","w","o","r","d">>,
     standard_name |-> <<"p","a","s","s","w","o","r","d">>,
     description |-> <<"User authentication credential">>,
     related_terms |->
       << <<"p","w","d">>, <<"p","a","s","s">>, <<"p","a","s","s","w","d">>,
         <<"p","w">> >>],
    [key |-> <<"t","o","k","e","n">>,
     standard_name |-> <<"t","o","k","e","n">>,
     description |-> <<"Authentication or session token">>,
     related_terms |->
       << <<"t","k","n">>, <<"a","u","t","h","_","t","o","k","e","n">>,
         <<"s","e","s","s","i","o","n","_","t","o","k","e","n">> >>],
    [key |-> <<"d","a","t","a">>,
     standard_name |-> <<"d","a","t","a">>,
     description |-> <<"Information or dataset">>,
     related_terms |->
       << <<"d","a","t","o","s">>, <<"i","n","f","o">>,
         <<"i","n","f","o","r","m","a","t","i","o","n">> >>],
    [key |-> <<"r","e","s","u","l","t">>,
     standard_name |-> <<"r","e","s","u","l","t">>,
     description |-> <<"Output or return value">>,
     related_terms |->
       << <<"r","e","s">>, <<"r","e","s","u","l","t","a","d","o">>,
         <<"o","u","t","p","u","t">>, <<"r","e","t">> >>],
    [key |-> <<"e","r","r","o","r">>,
     standard_name |-> <<"e","r","r","o","r">>,
     description |-> <<"Error condition or exception">>,
     related_terms |->
       << <<"e","r","r">>, <<"e","r","r","o">>,
         <<"e","x","c","e","p","t","i","o","n">>, <<"e","x","c">> >>],
    [key |-> <<"m","e","s","s","a","g","e">>,
     standard_name |-> <<"m","e","s","s","a","g","e">>,
     description |-> <<"Communication or notification">>,
     related_terms |->
       << <<"m","s","g">>, <<"m","e","n","s","a","j","e">>,
         <<"m","e","n","s","a","g","e","m">>,
         <<"n","o","t","i","f","i","c","a","t","i","o","n">> >>],
    [key |-> <<"s","t","a","t","u","s">>,
     standard_name |-> <<"s","t","a","t","u","s">>,
     description |-> <<"Current state or condition">>,
     related_terms |->
       << <<"s","t","a","t">>, <<"e","s","t","a","d","o">>,
         <<"s","t","a","t","e">>, <<"s","t","s">> >>],
    [key |-> <<"a","c","t","i","v","e">>,
     standard_name |-> <<"i","s","_","a","c","t","i","v","e">>,
     description |-> <<"Active state indicator">>,
     related_terms |->
       << <<"a","c","t","i","v","o">>, <<"e","n","a","b","l","e","d">>,
         <<"a","c","t">> >>],
    [key |-> <<"d","e","l","e","t","e","d">>,
     standard_name |-> <<"i","s","_","d","e","l","e","t","e","d">>,
     description |-> <<"Deletion state indicator">>,
     related_terms |->
       << <<"d","e","l">>, <<"r","e","m","o","v","e","d">>,
         <<"e","l","i","m","i","n","a","d","o">> >>],
    [key |-> <<"c","r","e","a","t","e","d","_","a","t">>,
     standard_name |-> <<"c","r","e","a","t","e","d","_","a","t">>,
     description |-> <<"Creation timestamp">>,
     related_terms |->
       << <<"c","r","e","a","t","e","d">>,
         <<"c","r","e","a","t","i","o","n","_","d","a","t","e">>,
         <<"c","r","e","a","t","e","_","t","i","m","e">>,
         <<"c","r","e","a","t","e","d","_","d","t">> >>],
    [key |-> <<"u","p","d","a","t","e","d","_","a","t">>,
     standard_name |-> <<"u","p","d","a","t","e","d","_","a","t">>,
     description |-> <<"Last update timestamp">>,
     related_terms |->
       << <<"u","p","d","a","t","e","d">>,
         <<"m","o","d","i","f","i","e","d">>,
         <<"u","p","d","a","t","e","_","t","i","m","e">>,
         <<"u","p","d","a","t","e","d","_","d","t">> >>],
    [key |-> <<"c","o","u","n","t">>,
     standard_name |-> <<"c","o","u","n","t">>,
     description |-> <<"Number or quantity">>,
     related_terms |->
       << <<"c","n","t">>, <<"c","a","n","t","i","d","a","d">>,
         <<"n","u","m">>, <<"n","u","m","b","e","r">> >>],
    [key |-> <<"t","o","t","a","l">>,
     standard_name |-> <<"t","o","t","a","l">>,
     description |-> <<"Sum or aggregate amount">>,
     related_terms |->
       << <<"t","o","t">>, <<"s","u","m">>,
         <<"t","o","t","a","l","_","a","m","o","u","n","t">> >>],
    [key |-> <<"a","m","o","u","n","t">>,
     standard_name |-> <<"a","m","o","u","n","t">>,
     description |-> <<"Quantity or monetary value">>,
     related_terms |->
       << <<"a","m","t">>, <<"m","o","n","t","o">>, <<"v","a","l","u","e">> >>],
    [key |-> <<"o","b","j","e","c","t">>,
     standard_name |-> <<"o","b","j","e","c","t">>,
     description |-> <<"Data object or entity">>,
     related_terms |->
       << <<"o","b","j">>, <<"o","b","j","e","t","o">>,
         <<"e","n","t","i","t","y">> >>],
    [key |-> <<"i","t","e","m">>,
     standard_name |-> <<"i","t","e","m">>,
     description |-> <<"Individual element or entry">>,
     related_terms |->
       << <<"i","t","m">>, <<"e","l","e","m","e","n","t","o">>,
         <<"e","l","e","m","e","n","t">> >>],
    [key |-> <<"l","i","s","t">>,
     standard_name |-> <<"l","i","s","t">>,
     description |-> <<"Collection of items">>,
     related_terms |->
       << <<"l","s","t">>, <<"l","i","s","t","a">>, <<"a","r","r","a","y">>,
         <<"c","o","l","l","e","c","t","i","o","n">> >>],
    [key |-> <<"r","e","q","u","e","s","t">>,
     standard_name |-> <<"r","e","q","u","e","s","t">>,
     description |-> <<"API or service request">>,
     related_terms |->
       << <<"r","e","q">>, <<"s","o","l","i","c","i","t","u","d">>,
         <<"p","e","t","i","t","i","o","n">> >>],
    [key |-> <<"r","e","s","p","o","n","s","e">>,
     standard_name |-> <<"r","e","s","p","o","n","s","e">>,
     description |-> <<"API or service response">>,
     related_terms |->
       << <<"r","e","s","p">>, <<"r","e","s">>,
         <<"r","e","s","p","u","e","s","t","a">>, <<"r","e","p","l","y">> >>],
    [key |-> <<"c","o","n","f","i","g","u","r","a","t","i","o","n">>,
     standard_name |-> <<"c","o","n","f","i","g">>,
     description |-> <<"System configuration">>,
     related_terms |->
       << <<"c","f","g">>, <<"c","o","n","f">>,
         <<"c","o","n","f","i","g","u","r","a","t","i","o","n">>,
         <<"s","e","t","t","i","n","g","s">> >>],
    [key |-> <<"p","a","r","a","m","e","t","e","r">>,
     standard_name |-> <<"p","a","r","a","m","e","t","e","r">>,
     description |-> <<"Function or method parameter">>,
     related_terms |->
       << <<"p","a","r","a","m">>, <<"p","r","m">>, <<"a","r","g">>,
         <<"a","r","g","u","m","e","n","t">> >>]
  >>

\* the dict assignments a sequence of add_term calls makes, in order
RECURSIVE AddTermCalls(_)
AddTermCalls(calls) ==
    IF calls = <<>> THEN <<>>
    ELSE AddTermAssigns(Head(calls).key, Head(calls).standard_name,
                        Head(calls).description, Head(calls).related_terms)
         \o AddTermCalls(Tail(calls))
\* TerminologyDictionary._initialize_default_terms
InitializeDefaultTerms(terms) ==
    DictPutAll(terms, AddTermCalls(DefaultTermCalls))
\* the store of TerminologyDictionary() built without a csv file
DefaultTerms == InitializeDefaultTerms(EmptyDict)

\* TerminologyDictionary._split_variable_name
SplitVariableName(name) ==
    IF HasChar(name, "_") THEN StrSplit(name, "_")
    ELSE IF FindParts(name) # <<>> THEN FindParts(name)
    ELSE IF HasChar(name, "-") THEN StrSplit(name, "-")
    ELSE <<name>>

\* the first part whose lower-cased form is a key, as the for loop finds it
RECURSIVE FirstPartMatch(_, _)
FirstPartMatch(terms, parts) ==
    IF parts = <<>> THEN None
    ELSE IF StrLower(Head(parts)) \in DictKeys(terms)
         THEN Some(DictGet(terms, StrLower(Head(parts))))
         ELSE FirstPartMatch(terms, Tail(parts))

\* a find_matching_term that stops after the direct match
FindExactTerm(terms, variable_name) ==
    IF StrLower(variable_name) \in DictKeys(terms)
    THEN Some(DictGet(terms, StrLower(variable_name)))
    ELSE None

\* TerminologyDictionary.find_matching_term
FindMatchingTerm(terms, variable_name) ==
    IF StrLower(variable_name) \in DictKeys(terms)
    THEN Some(DictGet(terms, StrLower(variable_name)))
    ELSE FirstPartMatch(terms, SplitVariableName(variable_name))

(***************************************************************************)
(* VariableNameAnalyzer                                                    *)
(***************************************************************************)
\* self.common_abbreviations, as (abbreviation, expansion) pairs
CommonAbbreviations == <<
    << <<"u","s","r">>, <<"u","s","e","r">> >>,
    << <<"p","w","d">>, <<"p","a","s","s","w","o","r","d">> >>,
    << <<"m","s","g">>, <<"m","e","s","s","a","g","e">> >>,
    << <<"e","r","r">>, <<"e","r","r","o","r">> >>,
    << <<"r","e","s">>, <<"r","e","s","u","l","t">> >>,
    << <<"r","e","q">>, <<"r","e","q","u","e","s","t">> >>,
    << <<"r","e","s","p">>, <<"r","e","s","p","o","n","s","e">> >>,
    << <<"c","f","g">>, <<"c","o","n","f","i","g">> >>,
    << <<"c","n","t">>, <<"c","o","u","n","t">> >>,
    << <<"a","m","t">>, <<"a","m","o","u","n","t">> >>,
    << <<"o","b","j">>, <<"o","b","j","e","c","t">> >>,
    << <<"l","s","t">>, <<"l","i","s","t">> >>,
    << <<"n","u","m">>, <<"n","u","m","b","e","r">> >>,
    << <<"t","e","m","p">>, <<"t","e","m","p","o","r","a","r","y">> >>,
    << <<"v","a","l">>, <<"v","a","l","u","e">> >>,
    << <<"i","d","x">>, <<"i","n","d","e","x">> >>,
    << <<"b","t","n">>, <<"b","u","t","t","o","n">> >>,
    << <<"i","m","g">>, <<"i","m","a","g","e">> >>,
    << <<"s","r","c">>, <<"s","o","u","r","c","e">> >>,
    << <<"d","e","s","t">>, <<"d","e","s","t","i","n","a","t","i","o","n">> >>,
    << <<"d","i","r">>, <<"d","i","r","e","c","t","o","r","y">> >>,
    << <<"d","b">>, <<"d","a","t","a","b","a","s","e">> >>
  >>
\* korean_mappings of _standardize_mixed_language, in the dict's order
KoreanMappings == <<
    << <<"h_sa","h_yong","h_ja">>, <<"u","s","e","r">> >>,
    << <<"h_bi","h_mil","h_beon","h_ho">>, <<"p","a","s","s","w","o","r","d">> >>,
    << <<"h_i","h_reum">>, <<"n","a","m","e">> >>,
    << <<"h_beon","h_ho">>, <<"n","u","m","b","e","r">> >>,
    << <<"h_de","h_i","h_teo">>, <<"d","a","t","a">> >>,
    << <<"h_gyeol","h_gwa">>, <<"r","e","s","u","l","t">> >>,
    << <<"h_sang","h_tae">>, <<"s","t","a","t","u","s">> >>,
    << <<"h_me","h_si","h_ji">>, <<"m","e","s","s","a","g","e">> >>,
    << <<"h_o","h_ryu">>, <<"e","r","r","o","r">> >>,
    << <<"h_mok","h_rok">>, <<"l","i","s","t">> >>,
    << <<"h_gae","h_su">>, <<"c","o","u","n","t">> >>,
    << <<"h_hap","h_gye">>, <<"t","o","t","a","l">> >>,
    << <<"h_seol","h_jeong">>, <<"c","o","n","f","i","g">> >>,
    << <<"h_yo","h_cheong">>, <<"r","e","q","u","e","s","t">> >>,
    << <<"h_eung","h_dap">>, <<"r","e","s","p","o","n","s","e">> >>
  >>

IsAbbreviation(part) ==
    \E i \in 1..Len(CommonAbbreviations) : CommonAbbreviations[i][1] = part
AbbreviationOf(part) ==
    CommonAbbreviations[CHOOSE i \in 1..Len(CommonAbbreviations) :
                            CommonAbbreviations[i][1] = part][2]

\* VariableNameAnalyzer._split_name_parts
SplitNameParts(name) ==
    IF HasChar(name, "_") THEN StrSplit(name, "_")
    ELSE IF HasChar(name, "-") THEN StrSplit(name, "-")
    ELSE FindParts(name)

\* an expansion that leaves every part as it is
ExpandNothing(variable_name) == variable_name

\* VariableNameAnalyzer._expand_abbreviations
ExpandAbbreviations(variable_name) ==
    LET parts == SplitNameParts(variable_name)
        expanded_parts ==
          [i \in 1..Len(parts) |->
             IF IsAbbreviation(StrLower(parts[i]))
             THEN AbbreviationOf(StrLower(parts[i]))
             ELSE parts[i]]
    IN StrJoin(expanded_parts, <<"_">>)

\* ^[a-z]+(_[a-z]+)*$
MatchesSnakeRegex(s) ==
    /\ Len(s) > 0
    /\ \A i \in 1..Len(s) : IsLower(s[i]) \/ s[i] = "_"
    /\ s[1] # "_" /\ s[Len(s)] # "_"
    /\ \A i \in 1..(Len(s) - 1) : ~(s[i] = "_" /\ s[i + 1] = "_")
\* ^[a-z]+([A-Z][a-z]+)*$
MatchesCamelRegex(s) ==
    /\ Len(s) > 0
    /\ \A i \in 1..Len(s) : IsLower(s[i]) \/ IsUpper(s[i])
    /\ IsLower(s[1])
    /\ \A i \in 1..Len(s) :
         IsUpper(s[i]) => i + 1 <= Len(s) /\ IsLower(s[i + 1])
\* ^[A-Z][a-z]+([A-Z][a-z]+)*$
MatchesPascalRegex(s) ==
    /\ Len(s) > 0
    /\ \A i \in 1..Len(s) : IsLower(s[i]) \/ IsUpper(s[i])
    /\ IsUpper(s[1])
    /\ \A i \in 1..Len(s) :
         IsUpper(s[i]) => i + 1 <= Len(s) /\ IsLower(s[i + 1])

\* VariableNameAnalyzer._matches_convention
MatchesConvention(variable_name, convention) ==
    IF convention = SNAKE_CASE THEN MatchesSnakeRegex(variable_name)
    ELSE IF convention = CAMEL_CASE THEN MatchesCamelRegex(variable_name)
    ELSE IF convention = PASCAL_CASE THEN MatchesPascalRegex(variable_name)
    ELSE TRUE

\* ''.join(part.capitalize() for part in parts)
RECURSIVE JoinCapitalized(_)
JoinCapitalized(parts) ==
    IF parts = <<>> THEN <<>>
    ELSE Capitalize(Head(parts)) \o JoinCapitalized(Tail(parts))

\* VariableNameAnalyzer._apply_convention
ApplyConvention(name, convention) ==
    LET parts == SplitNameParts(name)
    IN IF convention = SNAKE_CASE
       THEN StrJoin([i \in 1..Len(parts) |-> StrLower(parts[i])], <<"_">>)
       ELSE IF convention = CAMEL_CASE
       THEN IF parts = <<>> THEN name
            ELSE StrLower(parts[1]) \o JoinCapitalized(Tail(parts))
       ELSE IF convention = PASCAL_CASE
       THEN JoinCapitalized(parts)
       ELSE name

\* VariableNameAnalyzer._has_mixed_languages
HasMixedLanguages(variable_name) ==
    /\ \E i \in 1..Len(variable_name) : IsHangul(variable_name[i])
    /\ \E i \in 1..Len(variable_name) :
         IsLower(variable_name[i]) \/ IsUpper(variable_name[i])

\* the replace loop over korean_mappings, in the dict's order
RECURSIVE ReplaceMappings(_, _)
ReplaceMappings(s, mappings) ==
    IF mappings = <<>> THEN s
    ELSE ReplaceMappings(StrReplace(s, Head(mappings)[1], Head(mappings)[2]),
                         Tail(mappings))

\* VariableNameAnalyzer._standardize_mixed_language
StandardizeMixedLanguage(variable_name, convention) ==
    LET result == ReplaceMappings(variable_name, KoreanMappings)
    IN IF result # variable_name
       THEN Some(ApplyConvention(result, convention))
       ELSE None

\* the four reasons and the literal evidence terms
MixedLanguage == "MixedLanguage"
MeaninglessAbbreviation == "MeaninglessAbbreviation"
DictionaryMismatch == "DictionaryMismatch"
ConventionMismatch == "ConventionMismatch"
EvidenceStandardEnglish == <<"standard english term">>
EvidenceNamingConvention == <<"naming convention">>

\* the confidences, in hundredths
ConfMixedLanguage == 90
ConfAbbreviation == 85
ConfDictionary == 95
ConfConvention == 80

ReviewResult(original_name, suggested_name, reason, evidence_term, confidence) ==
    [original_name |-> original_name, suggested_name |-> suggested_name,
     reason |-> reason, evidence_term |-> evidence_term,
     confidence |-> confidence]

\* the four rules of analyze_variable_name, each with the condition under
\* which its return statement is reached once the earlier ones were not
MixedRuleFires(variable_name, target_convention) ==
    /\ HasMixedLanguages(variable_name)
    /\ LET suggested == StandardizeMixedLanguage(variable_name, target_convention)
       IN /\ IsSome(suggested)
          /\ TheVal(suggested) # <<>>
          /\ TheVal(suggested) # variable_name
AbbreviationRuleFires(terms, variable_name) ==
    /\ ExpandAbbreviations(variable_name) # variable_name
    /\ IsSome(FindMatchingTerm(terms, ExpandAbbreviations(variable_name)))
DictionaryRuleFires(terms, variable_name) ==
    /\ IsSome(FindMatchingTerm(terms, variable_name))
    /\ TheVal(FindMatchingTerm(terms, variable_name)).standard_variable_name
         # variable_name
\* a convention rule that never answers
ConventionRuleNever(variable_name, target_convention) == FALSE
ConventionRuleFires(variable_name, target_convention) ==
    ~MatchesConvention(variable_name, target_convention)

\* an analyzer that tries the convention rule before the other three
AnalyzeConventionFirst(terms, variable_name, target_convention) ==
    IF ConventionRuleFires(variable_name, target_convention)
    THEN Some(ReviewResult(variable_name,
                 ApplyConvention(variable_name, target_convention),
                 ConventionMismatch, EvidenceNamingConvention, ConfConvention))
    ELSE None

\* VariableNameAnalyzer.analyze_variable_name
AnalyzeVariableName(terms, variable_name, target_convention) ==
    IF MixedRuleFires(variable_name, target_convention)
    THEN Some(ReviewResult(variable_name,
                 TheVal(StandardizeMixedLanguage(variable_name, target_convention)),
                 MixedLanguage, EvidenceStandardEnglish, ConfMixedLanguage))
    ELSE IF AbbreviationRuleFires(terms, variable_name)
    THEN LET term == TheVal(FindMatchingTerm(terms,
                                ExpandAbbreviations(variable_name)))
         IN Some(ReviewResult(variable_name,
                    ApplyConvention(term.standard_variable_name, target_convention),
                    MeaninglessAbbreviation, term.term, ConfAbbreviation))
    ELSE IF DictionaryRuleFires(terms, variable_name)
    THEN LET term == TheVal(FindMatchingTerm(terms, variable_name))
         IN Some(ReviewResult(variable_name,
                    ApplyConvention(term.standard_variable_name, target_convention),
                    DictionaryMismatch, term.term, ConfDictionary))
    ELSE IF ConventionRuleFires(variable_name, target_convention)
    THEN Some(ReviewResult(variable_name,
                 ApplyConvention(variable_name, target_convention),
                 ConventionMismatch, EvidenceNamingConvention, ConfConvention))
    ELSE None

(***************************************************************************)
(* EvidenceBasedAnalyzer.  A weight or a confidence is a fraction <<n, d>>  *)
(* with d > 0; the code computes them as floats.                            *)
(***************************************************************************)
RECURSIVE GCD(_, _)
GCD(a, b) == IF b = 0 THEN a ELSE GCD(b, a % b)
Frac(n, d) == LET g == GCD(n, d) IN IF g = 0 THEN <<0, 1>> ELSE <<n \div g, d \div g>>
FracAdd(x, y) == Frac(x[1] * y[2] + y[1] * x[2], x[2] * y[2])
FracMul(x, y) == Frac(x[1] * y[1], x[2] * y[2])
FracLess(x, y) == x[1] * y[2] < y[1] * x[2]
FracLeq(x, y) == x[1] * y[2] <= y[1] * x[2]
FracEq(x, y) == x[1] * y[2] = y[1] * x[2]

\* self.confidence_weights
ConfidenceWeights ==
    [exact_match |-> Frac(10, 10), partial_match |-> Frac(8, 10),
     abbreviation |-> Frac(7, 10), convention |-> Frac(6, 10),
     context |-> Frac(5, 10), similarity |-> Frac(4, 10)]

Evidence(source, weight) == [source |-> source, weight |-> weight]

\* common_abbreviations of _check_abbreviations
EvidenceAbbreviations == <<
    << <<"u","s","r">>, <<"u","s","e","r">> >>,
    << <<"p","w","d">>, <<"p","a","s","s","w","o","r","d">> >>,
    << <<"m","s","g">>, <<"m","e","s","s","a","g","e">> >>,
    << <<"e","r","r">>, <<"e","r","r","o","r">> >>,
    << <<"r","e","s">>, <<"r","e","s","u","l","t">> >>,
    << <<"r","e","q">>, <<"r","e","q","u","e","s","t">> >>,
    << <<"r","e","s","p">>, <<"r","e","s","p","o","n","s","e">> >>,
    << <<"c","f","g">>, <<"c","o","n","f","i","g">> >>,
    << <<"c","n","t">>, <<"c","o","u","n","t">> >>,
    << <<"a","m","t">>, <<"a","m","o","u","n","t">> >>,
    << <<"o","b","j">>, <<"o","b","j","e","c","t">> >>,
    << <<"l","s","t">>, <<"l","i","s","t">> >>,
    << <<"n","u","m">>, <<"n","u","m","b","e","r">> >>,
    << <<"t","e","m","p">>, <<"t","e","m","p","o","r","a","r","y">> >>,
    << <<"v","a","l">>, <<"v","a","l","u","e">> >>,
    << <<"i","d","x">>, <<"i","n","d","e","x">> >>,
    << <<"b","t","n">>, <<"b","u","t","t","o","n">> >>,
    << <<"i","m","g">>, <<"i","m","a","g","e">> >>,
    << <<"s","r","c">>, <<"s","o","u","r","c","e">> >>,
    << <<"d","e","s","t">>, <<"d","e","s","t","i","n","a","t","i","o","n">> >>,
    << <<"d","i","r">>, <<"d","i","r","e","c","t","o","r","y">> >>,
    << <<"d","b">>, <<"d","a","t","a","b","a","s","e">> >>,
    << <<"c","t","x">>, <<"c","o","n","t","e","x","t">> >>,
    << <<"m","g","r">>, <<"m","a","n","a","g","e","r">> >>,
    << <<"c","t","r","l">>, <<"c","o","n","t","r","o","l","l","e","r">> >>,
    << <<"s","v","c">>, <<"s","e","r","v","i","c","e">> >>,
    << <<"r","e","p","o">>, <<"r","e","p","o","s","i","t","o","r","y">> >>,
    << <<"i","m","p","l">>, <<"i","m","p","l","e","m","e","n","t","a","t","i","o","n">> >>,
    << <<"u","t","i","l">>, <<"u","t","i","l","i","t","y">> >>,
    << <<"h","e","l","p","e","r">>, <<"h","e","l","p","e","r">> >>,
    << <<"e","x","c">>, <<"e","x","c","e","p","t","i","o","n">> >>,
    << <<"e","n","v">>, <<"e","n","v","i","r","o","n","m","e","n","t">> >>,
    << <<"c","o","n","f">>, <<"c","o","n","f","i","g","u","r","a","t","i","o","n">> >>,
    << <<"a","u","t","h">>, <<"a","u","t","h","e","n","t","i","c","a","t","i","o","n">> >>,
    << <<"p","e","r","m">>, <<"p","e","r","m","i","s","s","i","o","n">> >>,
    << <<"a","d","m","i","n">>, <<"a","d","m","i","n","i","s","t","r","a","t","o","r">> >>
  >>

\* EvidenceBasedAnalyzer._split_name_parts
EvSplitNameParts(name) ==
    IF HasChar(name, "_") THEN StrSplit(name, "_")
    ELSE IF HasChar(name, "-") THEN StrSplit(name, "-")
    ELSE IF FindParts(name) # <<>> THEN FindParts(name)
    ELSE <<name>>

\* EvidenceBasedAnalyzer._check_abbreviations
CheckAbbreviations(name) ==
    LET parts == EvSplitNameParts(name)
        isAbbr(p) == \E i \in 1..Len(EvidenceAbbreviations) :
                        EvidenceAbbreviations[i][1] = p
        expansion(p) ==
            EvidenceAbbreviations[CHOOSE i \in 1..Len(EvidenceAbbreviations) :
                                      EvidenceAbbreviations[i][1] = p][2]
        expanded_parts ==
          [i \in 1..Len(parts) |->
             IF isAbbr(StrLower(parts[i])) THEN expansion(StrLower(parts[i]))
             ELSE parts[i]]
    IN StrJoin(expanded_parts, <<"_">>)

\* the patterns table of _analyze_by_context for one usage type, as
\* (keyword, first suggestion) pairs in the dict's order
ContextPatterns(usage_type) ==
    IF usage_type = "parameter" THEN <<
        << <<"u","s","e","r">>, <<"u","s","e","r","_","i","d">> >>,
        << <<"d","a","t","a">>, <<"i","n","p","u","t","_","d","a","t","a">> >>,
        << <<"c","o","n","f","i","g">>, <<"c","o","n","f","i","g","u","r","a","t","i","o","n">> >> >>
    ELSE IF usage_type = "iterator" THEN <<
        << <<"i","t","e","m">>, <<"i","t","e","m">> >>,
        << <<"u","s","e","r">>, <<"u","s","e","r">> >>,
        << <<"d","a","t","a">>, <<"r","e","c","o","r","d">> >> >>
    ELSE IF usage_type = "local" THEN <<
        << <<"r","e","s","u","l","t">>, <<"r","e","s","u","l","t">> >>,
        << <<"e","r","r","o","r">>, <<"e","r","r","o","r">> >>,
        << <<"t","e","m","p">>, <<"t","e","m","p","o","r","a","r","y">> >> >>
    ELSE <<>>

\* sub in s
IsSubstring(sub, s) == \E i \in 1..(Len(s) + 1) : OccursAt(s, sub, i)

\* EvidenceBasedAnalyzer._analyze_by_context
RECURSIVE FirstPattern(_, _)
FirstPattern(patterns, lowered) ==
    IF patterns = <<>> THEN None
    ELSE IF IsSubstring(Head(patterns)[1], lowered) THEN Some(Head(patterns)[2])
    ELSE FirstPattern(Tail(patterns), lowered)
AnalyzeByContext(name, context) ==
    FirstPattern(ContextPatterns(context.usage_type), StrLower(name))

(***************************************************************************)
(* difflib.SequenceMatcher(None, a, b).ratio(): 2 * M / T, where T is the  *)
(* total length and M the number of matched characters: the longest common *)
(* block (the earliest in a, then the earliest in b, among the longest),   *)
(* then the same to its left and to its right.  No character is junk for   *)
(* strings this short.                                                     *)
(***************************************************************************)
RECURSIVE CommonLen(_, _, _, _, _, _)
CommonLen(a, b, i, j, ahi, bhi) ==
    IF i <= ahi /\ j <= bhi /\ a[i] = b[j]
    THEN 1 + CommonLen(a, b, i + 1, j + 1, ahi, bhi)
    ELSE 0

\* find_longest_match on a[alo..ahi] and b[blo..bhi]: <<i, j, k>>
LongestMatch(a, b, alo, ahi, blo, bhi) ==
    LET starts == {<<i, j>> \in (alo..ahi) \X (blo..bhi) : a[i] = b[j]}
        len(p) == CommonLen(a, b, p[1], p[2], ahi, bhi)
    IN IF starts = {} THEN <<alo, blo, 0>>
       ELSE LET best == CHOOSE p \in starts :
                          \A q \in starts :
                             \/ len(q) < len(p)
                             \/ len(q) = len(p) /\ p[1] < q[1]
                             \/ len(q) = len(p) /\ p[1] = q[1] /\ p[2] <= q[2]
            IN <<best[1], best[2], len(best)>>

RECURSIVE MatchedCount(_, _, _, _, _, _)
MatchedCount(a, b, alo, ahi, blo, bhi) ==
    IF alo > ahi \/ blo > bhi THEN 0
    ELSE LET m == LongestMatch(a, b, alo, ahi, blo, bhi)
         IN IF m[3] = 0 THEN 0
            ELSE m[3]
                 + MatchedCount(a, b, alo, m[1] - 1, blo, m[2] - 1)
                 + MatchedCount(a, b, m[1] + m[3], ahi, m[2] + m[3], bhi)

SimilarityRatio(a, b) ==
    IF Len(a) + Len(b) = 0 THEN Frac(1, 1)
    ELSE Frac(2 * MatchedCount(a, b, 1, Len(a), 1, Len(b)), Len(a) + Len(b))

\* the threshold of _find_similar_terms
SimilarityThreshold == Frac(6, 10)

\* list.sort(key=lambda x: x[1], reverse=True) on pairs <<name, fraction>>:
\* descending, equal keys keeping their order
RECURSIVE InsertDescending(_, _)
InsertDescending(sorted, x) ==
    IF sorted = <<>> THEN <<x>>
    ELSE IF FracLess(Head(sorted)[2], x[2]) THEN <<x>> \o sorted
    ELSE <<Head(sorted)>> \o InsertDescending(Tail(sorted), x)
RECURSIVE SortDescending(_)
SortDescending(pairs) ==
    IF pairs = <<>> THEN <<>>
    ELSE InsertDescending(SortDescending(SubSeq(pairs, 1, Len(pairs) - 1)),
                          pairs[Len(pairs)])

\* EvidenceBasedAnalyzer._find_similar_terms
FindSimilarTerms(terms, name) ==
    LET isOwnKey(k) == k = DictGet(terms, k).term
        own == SelectSeq(terms.order, isOwnKey)
        scored == [i \in 1..Len(own) |->
                     << DictGet(terms, own[i]).standard_variable_name,
                        SimilarityRatio(StrLower(name),
                                        StrLower(DictGet(terms, own[i]).term)) >>]
        above(p) == FracLess(SimilarityThreshold, p[2])
    IN SortDescending(SelectSeq(scored, above))

\* a str object, to tell  convention == "snake_case"  on an enum member
\* (never equal to a str) from the same comparison on a str
PyStr(v) == [kind |-> "str", value |-> v]

\* EvidenceBasedAnalyzer._check_convention_issues
CheckConventionIssues(name, convention) ==
    IF convention = PyStr("snake_case") /\ ~MatchesSnakeRegex(name)
    THEN Some("Does not follow snake_case convention")
    ELSE IF convention = PyStr("camelCase") /\ ~MatchesCamelRegex(name)
    THEN Some("Does not follow camelCase convention")
    ELSE None

\* EvidenceBasedAnalyzer._apply_convention, for an enum member or a str
\* "snake_case" (convention.value of any other str raises AttributeError,
\* and no caller passes one)
EvApplyConvention(name, convention) ==
    LET parts == EvSplitNameParts(name)
    IN IF convention = PyStr("snake_case") \/ convention.value = "snake_case"
       THEN StrJoin([i \in 1..Len(parts) |-> StrLower(parts[i])], <<"_">>)
       ELSE IF convention = PyStr("camelCase") \/ convention.value = "camelCase"
       THEN IF parts = <<>> THEN name
            ELSE StrLower(parts[1]) \o JoinCapitalized(Tail(parts))
       ELSE name

\* EvidenceBasedAnalyzer._get_reason_from_evidence
GetReasonFromEvidence(evidence) ==
    IF evidence.source = "terminology_dictionary" THEN DictionaryMismatch
    ELSE IF evidence.source = "abbreviation_expansion" THEN MeaninglessAbbreviation
    ELSE IF evidence.source = "context_analysis" THEN "ContextSuggestion"
    ELSE IF evidence.source = "similarity_matching" THEN "SimilarStandardTerm"
    ELSE IF evidence.source = "naming_convention" THEN ConventionMismatch
    ELSE "NeedsImprovement"

\* the evidences and the suggestions analyze_with_evidence collects, in the
\* order of its five steps
ExactMatchStep(terms, variable_name) ==
    LET term == FindMatchingTerm(terms, variable_name)
    IN IF IsSome(term)
       THEN [evidences |-> <<Evidence("terminology_dictionary",
                                      ConfidenceWeights.exact_match)>>,
             suggestions |-> << <<TheVal(term).standard_variable_name,
                                  Frac(95, 100)>> >>]
       ELSE [evidences |-> <<>>, suggestions |-> <<>>]
AbbreviationStep(terms, variable_name) ==
    LET expanded == CheckAbbreviations(variable_name)
        expanded_term == FindMatchingTerm(terms, expanded)
    IN IF expanded # variable_name
       THEN [evidences |-> <<Evidence("abbreviation_expansion",
                                      ConfidenceWeights.abbreviation)>>,
             suggestions |->
               IF IsSome(expanded_term)
               THEN << <<TheVal(expanded_term).standard_variable_name,
                         Frac(85, 100)>> >>
               ELSE <<>>]
       ELSE [evidences |-> <<>>, suggestions |-> <<>>]
ContextStep(variable_name, context) ==
    LET context_suggestion == AnalyzeByContext(variable_name, context)
    IN IF IsSome(context_suggestion) /\ TheVal(context_suggestion) # <<>>
       THEN [evidences |-> <<Evidence("context_analysis",
                                      ConfidenceWeights.context)>>,
             suggestions |-> << <<TheVal(context_suggestion), Frac(75, 100)>> >>]
       ELSE [evidences |-> <<>>, suggestions |-> <<>>]
SimilarityStep(terms, variable_name) ==
    LET similar_terms == FindSimilarTerms(terms, variable_name)
        top == SubSeq(similar_terms, 1,
                      IF Len(similar_terms) < 3 THEN Len(similar_terms) ELSE 3)
    IN [evidences |->
          [i \in 1..Len(top) |->
             Evidence("similarity_matching",
                      FracMul(ConfidenceWeights.similarity, top[i][2]))],
        suggestions |->
          [i \in 1..Len(top) |-> <<top[i][1], FracMul(Frac(6, 10), top[i][2])>>]]
ConventionStep(variable_name, target_convention) ==
    IF IsSome(CheckConventionIssues(variable_name, target_convention))
    THEN [evidences |-> <<Evidence("naming_convention",
                                   ConfidenceWeights.convention)>>,
          suggestions |-> <<>>]
    ELSE [evidences |-> <<>>, suggestions |-> <<>>]

\* evidences.append / suggestions.append over the steps, in order
RECURSIVE Collected(_, _)
Collected(steps, list) ==
    IF steps = <<>> THEN <<>>
    ELSE Head(steps)[list] \o Collected(Tail(steps), list)
CollectEvidence(terms, variable_name, context, target_convention) ==
    [list \in {"evidences", "suggestions"} |->
       Collected(<< ExactMatchStep(terms, variable_name),
                    AbbreviationStep(terms, variable_name),
                    ContextStep(variable_name, context),
                    SimilarityStep(terms, variable_name),
                    ConventionStep(variable_name, target_convention) >>, list)]

\* sum(e.weight for e in evidences)
RECURSIVE TotalWeight(_)
TotalWeight(evidences) ==
    IF evidences = <<>> THEN Frac(0, 1)
    ELSE FracAdd(Head(evidences).weight, TotalWeight(Tail(evidences)))

\* the record collected last
LastEvidence(evidences) == evidences[Len(evidences)]

\* max(evidences, key=lambda e: e.weight): the first of the heaviest
PrimaryEvidence(evidences) ==
    evidences[CHOOSE i \in 1..Len(evidences) :
                /\ \A j \in 1..Len(evidences) :
                     FracLeq(evidences[j].weight, evidences[i].weight)
                /\ \A j \in 1..(i - 1) :
                     FracLess(evidences[j].weight, evidences[i].weight)]

\* a confidence that is the weight of the heaviest evidence
HeaviestWeight(evidences) == PrimaryEvidence(evidences).weight

\* a confidence that adds the weights up and neither averages nor clamps
SummedConfidence(evidences) == TotalWeight(evidences)

\* min(total_weight / len(evidences) if evidences else 0, 1.0)
OverallConfidence(evidences) ==
    LET mean == IF evidences = <<>> THEN Frac(0, 1)
                ELSE FracMul(TotalWeight(evidences), Frac(1, Len(evidences)))
    IN IF FracLess(Frac(1, 1), mean) THEN Frac(1, 1) ELSE mean

\* the AdvancedReviewResult analyze_with_evidence builds from the evidences,
\* the sorted suggestions and the best suggestion (lines 208-228)
AdvancedReviewResult(evidences, sorted, best_suggestion, variable_name, context) ==
    [original_name |-> variable_name,
     suggested_name |-> best_suggestion,
     reason |-> GetReasonFromEvidence(PrimaryEvidence(evidences)),
     evidence_term |-> best_suggestion,
     confidence |-> OverallConfidence(evidences),
     evidences |-> evidences,
     context |-> context,
     alternative_suggestions |->
        SubSeq(sorted, 2, IF Len(sorted) < 4 THEN Len(sorted) ELSE 4)]

\* an ending that keeps a suggestion only if its best candidate's own
\* confidence is above one half
FinalSuggestionAboveHalf(c, variable_name, context, target_convention) ==
    IF /\ c.suggestions # <<>>
       /\ FracLess(Frac(1, 2), SortDescending(c.suggestions)[1][2])
    THEN Some(AdvancedReviewResult(
                 c.evidences, SortDescending(c.suggestions),
                 EvApplyConvention(SortDescending(c.suggestions)[1][1],
                                   target_convention),
                 variable_name, context))
    ELSE None

\* the end of analyze_with_evidence (lines 202-230), once the evidences and
\* the suggestions are collected
FinalSuggestion(c, variable_name, context, target_convention) ==
    IF c.suggestions # <<>>
    THEN Some(AdvancedReviewResult(
                 c.evidences, SortDescending(c.suggestions),
                 EvApplyConvention(SortDescending(c.suggestions)[1][1],
                                   target_convention),
                 variable_name, context))
    ELSE None

\* EvidenceBasedAnalyzer.analyze_with_evidence
AnalyzeWithEvidence(terms, variable_name, context, target_convention) ==
    FinalSuggestion(CollectEvidence(terms, variable_name, context,
                                    target_convention),
                    variable_name, context, target_convention)

(***************************************************************************)
(* The state: the TerminologyDictionary's store, the identifier and the    *)
(* target convention the caller holds, the TerminologyManager, the source  *)
(* text under review with the lists its reviews returned, the arguments    *)
(* the caller holds for a call of a function, and the last call made with  *)
(* what it returned.  Each specification below runs one part of the       *)
(* program and leaves the rest of the state idle.                          *)
(***************************************************************************)
VARIABLES terms, variable_name, target_convention, manager, code, runs,
          args, call, analyzer, statistics

vars == <<terms, variable_name, target_convention, manager, code, runs,
          args, call, analyzer, statistics>>

\* the TerminologyDictionary and the caller of the analyzers
namingVars == <<terms, variable_name, target_convention>>
\* the TerminologyManager
storeVars == <<manager>>
\* no manager has been constructed
NoManager == [terms |-> EmptyDict, csv_terms |-> {}, custom_terms_file |-> <<>>,
              clock |-> 0]
\* the CodeReviewer's caller
reviewVars == <<code, runs>>
\* no identifier is under analysis
NoName == <<>>
\* no source text is under review
NoCode == <<>>
\* the caller holds no arguments
NoArgs == <<>>

NoCall == [op |-> "none"]
\* the RealTimeAnalyzer and the StatisticsManager
serviceVars == <<analyzer, statistics>>
\* no RealTimeAnalyzer is constructed
NoAnalyzer == <<>>
\* no StatisticsManager is constructed
NoStatistics == <<>>

(***************************************************************************)
(* The inputs.  An identifier is a concatenation of at most MaxPieces      *)
(* pieces, or a string of at most MaxChars characters of a small alphabet, *)
(* or one of a few named identifiers.  The evidence aggregator, whose      *)
(* similarity search is costly, is applied to the identifiers of at most   *)
(* EvMaxPieces pieces and to the named ones.                               *)
(***************************************************************************)
MaxPieces == 3
MaxChars == 3
EvMaxPieces == 2

Pieces == { <<"u","s","r">>, <<"u","s","e","r">>, <<"i","d">>, <<"I","d">>,
            <<"_">>, <<"1">>, <<"h_sa","h_yong","h_ja">> }
Alphabet == {"a", "B", "_", "-", "1"}
NamedIdentifiers ==
    { <<"t","o","t","a","l">>,
      <<"u","s","e","r","N","a","m","e">>,
      <<"p","w","d">>,
      <<"l","o","g","i","n","N","a","m","e">>,
      <<"t","e","m","p">>,
      <<"A","B","1">>,
      <<"h_bi","h_mil","h_beon","h_ho","_","p","w">> }

RECURSIVE PieceStrings(_)
PieceStrings(n) ==
    IF n = 0 THEN {<<>>}
    ELSE PieceStrings(n - 1)
         \cup {s \o p : s \in PieceStrings(n - 1), p \in Pieces}
RECURSIVE CharStrings(_)
CharStrings(n) ==
    IF n = 0 THEN {<<>>}
    ELSE CharStrings(n - 1)
         \cup {Append(s, c) : s \in CharStrings(n - 1), c \in Alphabet}

Identifiers ==
    (PieceStrings(MaxPieces) \cup CharStrings(MaxChars) \cup NamedIdentifiers)
    \ {<<>>}
EvIdentifiers == (PieceStrings(EvMaxPieces) \cup NamedIdentifiers) \ {<<>>}
\* the usage types CodeContext's visitor records
UsageTypes == {"parameter", "local", "iterator"}

(***************************************************************************)
(* The analyzers' operations.                                              *)
(***************************************************************************)
\* a TerminologyDictionary built without a csv file, and a caller holding
\* an identifier and a convention
InitNaming ==
    /\ terms = DefaultTerms
    /\ variable_name \in Identifiers
    /\ target_convention \in Conventions
    /\ manager = NoManager
    /\ code = NoCode
    /\ runs = <<>>
    /\ args = NoArgs
    /\ call = NoCall
    /\ analyzer = NoAnalyzer
    /\ statistics = NoStatistics

\* analyzer.analyze_variable_name(variable_name, target_convention)
Analyze ==
    /\ call' = [op |-> "analyze",
                result |-> AnalyzeVariableName(terms, variable_name,
                                               target_convention)]
    /\ UNCHANGED <<namingVars, storeVars, reviewVars, args, serviceVars>>

\* analyzer._apply_convention(variable_name, target_convention)
ApplyConventionCall ==
    /\ call' = [op |-> "apply_convention", name |-> variable_name,
                again |-> FALSE,
                result |-> ApplyConvention(variable_name, target_convention)]
    /\ UNCHANGED <<namingVars, storeVars, reviewVars, args, serviceVars>>

\* analyzer._apply_convention on the string the last call returned, with
\* the same convention
ApplyConventionAgain ==
    /\ call.op = "apply_convention"
    /\ ~call.again
    /\ call' = [op |-> "apply_convention", name |-> call.result,
                again |-> TRUE,
                result |-> ApplyConvention(call.result, target_convention)]
    /\ UNCHANGED <<namingVars, storeVars, reviewVars, args, serviceVars>>

\* analyzer.analyze_with_evidence(variable_name, context, target_convention)
AnalyzeEvidence(context) ==
    /\ variable_name \in EvIdentifiers
    /\ call' = [op |-> "analyze_with_evidence",
                context |-> context,
                result |-> AnalyzeWithEvidence(terms, variable_name, context,
                                               target_convention)]
    /\ UNCHANGED <<namingVars, storeVars, reviewVars, args, serviceVars>>

NextNaming ==
    \/ Analyze
    \/ ApplyConventionCall
    \/ ApplyConventionAgain
    \/ \E u \in UsageTypes :
          AnalyzeEvidence([scope |-> "module", usage_type |-> u])

Spec == InitNaming /\ [][NextNaming]_vars

(***************************************************************************)
(* Claims about the analyzers.                                             *)
(***************************************************************************)
\* C1: every suggestion analyze_variable_name returns, for every identifier
\* and every target convention, has a suggested name that differs from the
\* original name.
C1_NoOpExclusion ==
    (call.op = "analyze" /\ IsSome(call.result))
        => TheVal(call.result).suggested_name # variable_name

\* C2: analyze_variable_name returns at most one suggestion, and it is the
\* one of the first rule that applies in the order mixed language,
\* abbreviation expansion, dictionary mismatch, convention mismatch.  An
\* identifier whose expansion is found in the store and which does not match
\* the convention never gets the convention suggestion, and gets the
\* abbreviation one, with confidence 0.85, when it is not of mixed language.
C2_FirstApplicableRule ==
    call.op = "analyze" =>
        LET mixed == MixedRuleFires(variable_name, target_convention)
            abbr == AbbreviationRuleFires(terms, variable_name)
            dict == DictionaryRuleFires(terms, variable_name)
            conv == ConventionRuleFires(variable_name, target_convention)
            r == call.result
        IN /\ Len(r) <= 1
           /\ IsSome(r) <=> (mixed \/ abbr \/ dict \/ conv)
           /\ IsSome(r) =>
                /\ TheVal(r).original_name = variable_name
                /\ (TheVal(r).reason = MixedLanguage) <=> mixed
                /\ (TheVal(r).reason = MeaninglessAbbreviation)
                      <=> (~mixed /\ abbr)
                /\ (TheVal(r).reason = DictionaryMismatch)
                      <=> (~mixed /\ ~abbr /\ dict)
                /\ (TheVal(r).reason = ConventionMismatch)
                      <=> (~mixed /\ ~abbr /\ ~dict /\ conv)
           /\ abbr => (IsSome(r) /\ TheVal(r).reason # ConventionMismatch
                                 /\ TheVal(r).confidence # ConfConvention)
           /\ (abbr /\ conv /\ ~mixed) =>
                /\ TheVal(r).reason = MeaninglessAbbreviation
                /\ TheVal(r).confidence = ConfAbbreviation
                /\ TheVal(r).suggested_name =
                     ApplyConvention(
                        TheVal(FindMatchingTerm(terms,
                           ExpandAbbreviations(variable_name))).standard_variable_name,
                        target_convention)

\* analyze_variable_name has answered for an identifier that triggers both
\* the abbreviation rule and the convention rule
C2_Witness ==
    /\ call.op = "analyze"
    /\ AbbreviationRuleFires(terms, variable_name)
    /\ ConventionRuleFires(variable_name, target_convention)
    /\ ~MixedRuleFires(variable_name, target_convention)
    /\ IsSome(call.result)
    /\ TheVal(call.result).confidence = ConfAbbreviation

\* C5: applying a convention to the result of applying it returns that
\* result again, for every string and every convention, and a string that
\* matches the convention's regex is returned unchanged.
C5_ConventionIdempotent ==
    call.op = "apply_convention" =>
        /\ call.again => call.result = call.name
        /\ MatchesConvention(call.name, target_convention)
              => call.result = call.name

\* C7: the confidence of every suggestion of analyze_variable_name and of
\* analyze_with_evidence lies between 0 and 1 inclusive (the analyzer's
\* confidences are held in hundredths, the aggregator's as fractions).
C7_ConfidenceBounds ==
    /\ (call.op = "analyze" /\ IsSome(call.result)) =>
          /\ 0 <= TheVal(call.result).confidence
          /\ TheVal(call.result).confidence <= 100
    /\ (call.op = "analyze_with_evidence" /\ IsSome(call.result)) =>
          /\ TheVal(call.result).confidence[2] > 0
          /\ FracLeq(Frac(0, 1), TheVal(call.result).confidence)
          /\ FracLeq(TheVal(call.result).confidence, Frac(1, 1))

\* analyze_with_evidence has returned a suggestion resting on several
\* pieces of evidence whose weights add up to more than 1
C7_Witness ==
    /\ call.op = "analyze_with_evidence"
    /\ IsSome(call.result)
    /\ Len(TheVal(call.result).evidences) >= 2
    /\ FracLess(Frac(1, 1), TotalWeight(TheVal(call.result).evidences))

\* C13: for an identifier that is not of mixed language, whose expansion
\* differs from it and is found in the store, analyze_variable_name returns
\* the convention applied to the found entry's standard form, with reason
\* MeaninglessAbbreviation and confidence 0.85; usr_id with target
\* snake_case and the default store gets user_id in this way.
C13_AbbreviationSuggestion ==
    call.op = "analyze" =>
       /\ (/\ ~HasMixedLanguages(variable_name)
           /\ ExpandAbbreviations(variable_name) # variable_name
           /\ IsSome(FindMatchingTerm(terms, ExpandAbbreviations(variable_name))))
          => call.result =
               Some(ReviewResult(
                  variable_name,
                  ApplyConvention(
                     TheVal(FindMatchingTerm(terms,
                        ExpandAbbreviations(variable_name))).standard_variable_name,
                     target_convention),
                  MeaninglessAbbreviation,
                  TheVal(FindMatchingTerm(terms,
                     ExpandAbbreviations(variable_name))).term,
                  ConfAbbreviation))
       /\ (variable_name = <<"u","s","r","_","i","d">>
           /\ target_convention = SNAKE_CASE)
          => /\ IsSome(call.result)
             /\ TheVal(call.result).suggested_name = <<"u","s","e","r","_","i","d">>
             /\ TheVal(call.result).reason = MeaninglessAbbreviation
             /\ TheVal(call.result).confidence = 85

\* analyze_variable_name has answered for usr_id with target snake_case
C13_Witness ==
    /\ call.op = "analyze"
    /\ variable_name = <<"u","s","r","_","i","d">>
    /\ target_convention = SNAKE_CASE
    /\ IsSome(call.result)
    /\ TheVal(call.result).original_name = <<"u","s","r","_","i","d">>

(***************************************************************************)
(* TerminologyManager                                                      *)
(*                                                                         *)
(* A Term object is a record; its field oid is the object's identity (the  *)
(* reading of the clock at which it was made), so that two Term objects    *)
(* with equal fields are still two entries.  Dates are readings of the     *)
(* manager's clock, which advances with every Term made or modified.       *)
(***************************************************************************)
\* re.sub(r'[^\w\s]', '', s)
RemoveNonWordNonSpace(s) == SelectSeq(s, LAMBDA c : IsWordChar(c) \/ IsSpace(c))
\* re.sub(r'[^\w]', '', s)
RemoveNonWord(s) == SelectSeq(s, IsWordChar)
\* re.sub(r'_+', '_', s)
CollapseUnderscores(s) ==
    LET keep == {i \in 1..Len(s) : ~(s[i] = "_" /\ i > 1 /\ s[i - 1] = "_")}
        F[i \in 0..Len(s)] ==
          IF i = 0 THEN <<>>
          ELSE IF i \in keep THEN Append(F[i - 1], s[i]) ELSE F[i - 1]
    IN F[Len(s)]
\* str.strip(): leading and trailing whitespace removed
RECURSIVE StrStrip(_)
StrStrip(s) ==
    IF Len(s) = 0 THEN s
    ELSE IF IsSpace(s[1]) THEN StrStrip(Tail(s))
    ELSE IF IsSpace(s[Len(s)]) THEN StrStrip(SubSeq(s, 1, Len(s) - 1))
    ELSE s

\* a derivation that trims the underscores before it turns the spaces into
\* underscores
SnakeTrimmedFirst(english_name) ==
    CollapseUnderscores(
        ReplaceChar(StripUnderscore(RemoveNonWordNonSpace(StrLower(english_name))),
                    " ", <<"_">>))

\* the snake_case form of an english name (add_term lines 208-211, and the
\* same four statements in both csv loaders)
SnakeFromEnglish(english_name) ==
    StripUnderscore(CollapseUnderscores(
        ReplaceChar(RemoveNonWordNonSpace(StrLower(english_name)), " ", <<"_">>)))

\* all the orders in which a list can come out of list(set(xs)): the order
\* of a set of str depends on the process's hash seed
RECURSIVE Orderings(_)
Orderings(S) ==
    IF S = {} THEN {<<>>}
    ELSE UNION {{<<x>> \o p : p \in Orderings(S \ {x})} : x \in S}
ListOfSet(xs) == Orderings({xs[i] : i \in 1..Len(xs)})

Term(korean_name, english_name, abbreviation, standard_variable, description, related_terms, added_date, modified_date, source, oid) ==
    [korean_name |-> korean_name, english_name |-> english_name,
     abbreviation |-> abbreviation, standard_variable |-> standard_variable,
     description |-> description, related_terms |-> related_terms,
     added_date |-> added_date, modified_date |-> modified_date,
     source |-> source, oid |-> oid]

\* f"{korean_name} ({english_name})" if korean_name else english_name
DefaultDescription(korean_name, english_name) ==
    IF korean_name # <<>>
    THEN korean_name \o <<" ", "(">> \o english_name \o <<")">>
    ELSE english_name

\* TerminologyManager._generate_related_terms, before list(set(related))
RelatedCandidates(english_name, abbreviation, standard_var) ==
    LET eng_lower == StrLower(english_name)
        variations == << ReplaceChar(eng_lower, " ", <<"_">>),
                         ReplaceChar(eng_lower, " ", <<>>),
                         ReplaceChar(eng_lower, " ", <<"-">>),
                         RemoveNonWord(eng_lower) >>
    IN (IF abbreviation # <<>> /\ StrLower(abbreviation) # standard_var
        THEN <<StrLower(abbreviation)>> ELSE <<>>)
       \o (IF english_name # <<>>
           THEN SelectSeq(variations,
                          LAMBDA v : v # standard_var /\ Len(v) > 2)
           ELSE <<>>)
\* TerminologyManager._generate_related_terms: the lists it can return
GenerateRelatedTerms(english_name, abbreviation, standard_var) ==
    ListOfSet(RelatedCandidates(english_name, abbreviation, standard_var))

\* TerminologyManager._add_term_to_index
AddTermToIndex(index, term) ==
    LET main ==
          << <<term.standard_variable, term>> >>
          \o (IF term.korean_name # <<>>
              THEN << <<StrLower(term.korean_name), term>> >> ELSE <<>>)
          \o (IF term.english_name # <<>>
              THEN << <<StrLower(term.english_name), term>> >> ELSE <<>>)
          \o (IF /\ term.abbreviation # <<>>
                 /\ StrLower(term.abbreviation) # term.standard_variable
              THEN << <<StrLower(term.abbreviation), term>> >> ELSE <<>>)
        d1 == DictPutAll(index, main)
        fresh == SelectSeq(term.related_terms,
                           LAMBDA r : r \notin DictKeys(d1))
    IN DictPutAll(d1, [i \in 1..Len(fresh) |-> <<fresh[i], term>>])

\* asdict(term)
AsDict(term) ==
    [korean_name |-> term.korean_name, english_name |-> term.english_name,
     abbreviation |-> term.abbreviation,
     standard_variable |-> term.standard_variable,
     description |-> term.description, related_terms |-> term.related_terms,
     added_date |-> term.added_date, modified_date |-> term.modified_date,
     source |-> term.source]

\* TerminologyManager.save_custom_terms: the 'terms' list it writes
SavedCustomTerms(index) ==
    LET own == SelectSeq(index.order,
                 LAMBDA k : /\ k = DictGet(index, k).standard_variable
                            /\ DictGet(index, k).source = "manual")
    IN [i \in 1..Len(own) |-> AsDict(DictGet(index, own[i]))]

\* a keys_to_remove that holds the standard variable name alone
KeysToRemoveStandardOnly(index, term) ==
    {term.standard_variable} \cap DictKeys(index)

\* the keys delete_term and update_term collect in keys_to_remove
KeysToRemove(index, term) ==
    {k \in DictKeys(index) :
        DictGet(index, k).standard_variable = term.standard_variable}

\* TerminologyManager.get_term
GetTerm(index, key) ==
    IF StrLower(key) \in DictKeys(index)
    THEN Some(DictGet(index, StrLower(key))) ELSE None

\* the state of a TerminologyManager: the index self.terms (key -> Term),
\* self.csv_terms, the content of the custom terms file ('terms' list;
\* None while the file does not exist) and the clock
Manager(index, csv_terms, custom_terms_file, clock) ==
    [terms |-> index, csv_terms |-> csv_terms,
     custom_terms_file |-> custom_terms_file, clock |-> clock]

\* the standard variable name add_term derives (lines 204-211)
AddStandardVar(english_name, abbreviation) ==
    IF abbreviation # <<>> /\ Len(abbreviation) >= 2
    THEN ReplaceChar(StrLower(abbreviation), "-", <<"_">>)
    ELSE SnakeFromEnglish(english_name)

\* add_term accepts its arguments (lines 200-201 and 213-214)
AddAccepts(english_name, abbreviation) ==
    /\ ~(english_name = <<>> \/ Len(english_name) < 2)
    /\ ~(AddStandardVar(english_name, abbreviation) = <<>>
         \/ Len(AddStandardVar(english_name, abbreviation)) < 2)

\* description or f"{korean_name} ({english_name})" if korean_name
\* else english_name: the conditional binds last
AddDescription(korean_name, english_name, description) ==
    IF korean_name # <<>>
    THEN (IF description # <<>> THEN description
          ELSE korean_name \o <<" ", "(">> \o english_name \o <<")">>)
    ELSE english_name

\* the lists add_term can store as related_terms: the caller's when it is
\* given and not empty, else a generated one
AddRelatedChoices(english_name, abbreviation, related_terms) ==
    IF IsSome(related_terms) /\ TheVal(related_terms) # <<>>
    THEN {TheVal(related_terms)}
    ELSE GenerateRelatedTerms(english_name, abbreviation,
                              AddStandardVar(english_name, abbreviation))

\* a delete_term that removes csv terms too
DeleteTermAnyOrigin(m, term_key) ==
    LET key == StrLower(term_key)
    IN IF key \notin DictKeys(m.terms) THEN [ok |-> FALSE, manager |-> m]
       ELSE LET index == DictRemove(m.terms,
                           KeysToRemove(m.terms, DictGet(m.terms, key)))
            IN [ok |-> TRUE,
                manager |-> [m EXCEPT !.terms = index,
                               !.custom_terms_file =
                                   Some(SavedCustomTerms(index))]]

\* TerminologyManager.delete_term: what it returns and the state it leaves
DeleteTermResult(m, term_key) ==
    LET key == StrLower(term_key)
    IN IF key \notin DictKeys(m.terms) THEN [ok |-> FALSE, manager |-> m]
       ELSE IF DictGet(m.terms, key).source = "csv"
       THEN [ok |-> FALSE, manager |-> m]
       ELSE LET index == DictRemove(m.terms,
                           KeysToRemove(m.terms, DictGet(m.terms, key)))
            IN [ok |-> TRUE,
                manager |-> [m EXCEPT !.terms = index,
                               !.custom_terms_file =
                                   Some(SavedCustomTerms(index))]]

\* the fields update_term assigns: those whose argument is not None, and
\* modified_date
UpdatedTerm(term, upd, now) ==
    [term EXCEPT
       !.korean_name = IF IsSome(upd.korean_name)
                       THEN TheVal(upd.korean_name) ELSE @,
       !.english_name = IF IsSome(upd.english_name)
                        THEN TheVal(upd.english_name) ELSE @,
       !.abbreviation = IF IsSome(upd.abbreviation)
                        THEN TheVal(upd.abbreviation) ELSE @,
       !.description = IF IsSome(upd.description)
                       THEN TheVal(upd.description) ELSE @,
       !.related_terms = IF IsSome(upd.related_terms)
                         THEN TheVal(upd.related_terms) ELSE @,
       !.modified_date = now]

\* TerminologyManager.update_term: what it returns and the state it leaves
UpdateTermResult(m, term_key, upd) ==
    LET key == StrLower(term_key)
    IN IF key \notin DictKeys(m.terms) THEN [ok |-> FALSE, manager |-> m]
       ELSE IF DictGet(m.terms, key).source = "csv"
       THEN [ok |-> FALSE, manager |-> m]
       ELSE LET old == DictGet(m.terms, key)
                term == UpdatedTerm(old, upd, m.clock)
                \* the object is modified in place: every key that holds
                \* it sees the new fields while the old keys are removed
                seen == [k \in DictKeys(m.terms) |->
                           IF DictGet(m.terms, k).oid = old.oid THEN term
                           ELSE DictGet(m.terms, k)]
                cleared == DictRemove([m.terms EXCEPT !.map = seen],
                              {k \in DictKeys(m.terms) :
                                 seen[k].standard_variable
                                    = term.standard_variable})
                index == AddTermToIndex(cleared, term)
            IN [ok |-> TRUE,
                manager |-> [m EXCEPT !.terms = index,
                               !.custom_terms_file =
                                   Some(SavedCustomTerms(index)),
                               !.clock = m.clock + 1]]

\* TerminologyManager.add_term with the related list it stores: what it
\* returns and the state it leaves
AddTermResult(m, korean_name, english_name, abbreviation, description, related) ==
    IF ~AddAccepts(english_name, abbreviation)
    THEN [ok |-> FALSE, manager |-> m]
    ELSE LET term == Term(korean_name, english_name, abbreviation,
                          AddStandardVar(english_name, abbreviation),
                          AddDescription(korean_name, english_name, description),
                          related, m.clock, m.clock, "manual", m.clock)
             index == AddTermToIndex(m.terms, term)
         IN [ok |-> TRUE,
             manager |-> [m EXCEPT !.terms = index,
                            !.custom_terms_file =
                                Some(SavedCustomTerms(index)),
                            !.clock = m.clock + 1]]

\* the header cells _load_csv_terms skips (line 66)
KoreanHeaders == { <<"h_han","h_geul","h_myeong">>,
                   <<"K","o","r","e","a","n">>, <<"K","O","R">> }
EnglishHeaders == { <<"h_yeong","h_mun","h_myeong">>,
                    <<"E","n","g","l","i","s","h">>, <<"E","N","G">> }

\* the standard variable name _load_csv_terms derives for a row (lines
\* 70-80), None when the row is skipped
CsvStandardVar(english_name, abbreviation) ==
    IF /\ abbreviation # <<>>
       /\ Len(abbreviation) >= 2
       /\ StrIsAlnum(ReplaceChar(ReplaceChar(abbreviation, "_", <<>>), "-", <<>>))
    THEN Some(ReplaceChar(StrLower(abbreviation), "-", <<"_">>))
    ELSE IF english_name # <<>> /\ Len(english_name) > 2
    THEN Some(SnakeFromEnglish(english_name))
    ELSE None

\* a row of the csv file yields a term (lines 56-82)
CsvRowLoads(row) ==
    /\ Len(row) >= 3
    /\ ~(StrStrip(row[1]) = <<>> /\ StrStrip(row[2]) = <<>>)
    /\ ~(StrStrip(row[1]) \in KoreanHeaders \/ StrStrip(row[2]) \in EnglishHeaders)
    /\ IsSome(CsvStandardVar(StrStrip(row[2]), StrStrip(row[3])))
    /\ Len(TheVal(CsvStandardVar(StrStrip(row[2]), StrStrip(row[3])))) > 1

\* the body of _load_csv_terms' loop for one row, with the related list
\* that _generate_related_terms returned
LoadCsvRow(m, row, related) ==
    LET korean_name == StrStrip(row[1])
        english_name == StrStrip(row[2])
        abbreviation == StrStrip(row[3])
        standard_var == TheVal(CsvStandardVar(english_name, abbreviation))
        term == Term(korean_name, english_name, abbreviation, standard_var,
                     DefaultDescription(korean_name, english_name),
                     related, m.clock, m.clock, "csv", m.clock)
    IN [m EXCEPT !.terms = AddTermToIndex(m.terms, term),
                 !.csv_terms = @ \cup {standard_var},
                 !.clock = m.clock + 1]

\* TerminologyManager._load_csv_terms: the states it can leave, one for
\* each order the related lists can come in
RECURSIVE LoadCsvTerms(_, _)
LoadCsvTerms(m, rows) ==
    IF rows = <<>> THEN {m}
    ELSE IF ~CsvRowLoads(Head(rows)) THEN LoadCsvTerms(m, Tail(rows))
    ELSE LET row == Head(rows)
             english_name == StrStrip(row[2])
             abbreviation == StrStrip(row[3])
         IN UNION { LoadCsvTerms(LoadCsvRow(m, row, related), Tail(rows)) :
                      related \in GenerateRelatedTerms(english_name, abbreviation,
                                    TheVal(CsvStandardVar(english_name, abbreviation))) }

\* TerminologyManager.__init__ with a csv file of the given rows (no rows:
\* the file is missing or empty) and no custom terms file
NewManagers(rows) == LoadCsvTerms(Manager(EmptyDict, {}, None, 1), rows)

(***************************************************************************)
(* The TerminologyManager's operations, as the terminology UI calls them.  *)
(***************************************************************************)
\* the clock readings the model follows: no Term is made or modified once
\* the clock has reached MaxClock
MaxClock == 3

KoreanUser == <<"h_sa","h_yong","h_ja">>
\* the csv files the manager is constructed from: none (or an empty one),
\* one row, two rows
CsvRowUser == <<KoreanUser, <<"u","s","e","r">>, <<"u","s","r">>>>
CsvRowAB == <<<<>>, <<"a"," ","b">>, <<>>>>
CsvFiles == { <<>>, <<CsvRowUser>>, <<CsvRowUser, CsvRowAB>> }

AddArgs(korean_name, english_name, abbreviation, related_terms) ==
    [korean_name |-> korean_name, english_name |-> english_name,
     abbreviation |-> abbreviation, description |-> <<>>,
     related_terms |-> related_terms]
\* the arguments of the add_term calls
AddCalls ==
    { AddArgs(KoreanUser, <<"u","s","e","r">>, <<"u","s","r">>, None),
      AddArgs(<<>>, <<"a","b">>, <<>>, None),
      AddArgs(<<>>, <<"a"," ","b">>, <<"u","s","r">>, None),
      AddArgs(<<>>, <<"a","b">>, <<"a"," ","b">>, None),
      AddArgs(<<>>, <<"a">>, <<"a","b">>, None),
      AddArgs(KoreanUser, <<"u","s","e","r">>, <<>>, Some(<< <<"U","s","r">> >>)) }

UpdateArgs(english_name, related_terms) ==
    [korean_name |-> None, english_name |-> english_name,
     abbreviation |-> None, description |-> None,
     related_terms |-> related_terms]
\* the keyword arguments of the update_term calls
UpdateCalls ==
    { UpdateArgs(None, None),
      UpdateArgs(Some(<<"a","b">>), None),
      UpdateArgs(None, Some(<< <<"a","b">> >>)) }

\* the keys of the delete_term, update_term and get_term calls
StoreKeys == { <<"u","s","r">>, <<"U","S","E","R">>, <<"a","b">>,
               <<"a"," ","b">>, KoreanUser, <<"z","z">>, <<"p","w","d">> }
\* the names of the find_matching_term calls
LookupNames == { <<"u","s","e","r">>, <<"U","S","E","R">>,
                 <<"u","s","e","r","_","z","z">>, <<"z","z","U","s","e","r">>,
                 <<"z","z","-","u","s","e","r">>, <<"z","z">>,
                 <<"p","w","d">> }

\* a TerminologyManager constructed from one of the csv files, and a
\* TerminologyDictionary constructed without one
InitStore ==
    /\ terms = DefaultTerms
    /\ variable_name = NoName
    /\ target_convention = SNAKE_CASE
    /\ manager \in UNION {NewManagers(rows) : rows \in CsvFiles}
    /\ code = NoCode
    /\ runs = <<>>
    /\ args = NoArgs
    /\ call = NoCall
    /\ analyzer = NoAnalyzer
    /\ statistics = NoStatistics

\* manager.add_term(korean_name, english_name, abbreviation, description,
\* related_terms)
AddTerm(a) ==
    /\ manager.clock < MaxClock
    /\ \E related \in AddRelatedChoices(a.english_name, a.abbreviation,
                                        a.related_terms) :
         LET r == AddTermResult(manager, a.korean_name, a.english_name,
                                a.abbreviation, a.description, related)
         IN /\ manager' = r.manager
            /\ call' = [op |-> "add_term", args |-> a, result |-> r.ok,
                        oid |-> manager.clock]
    /\ UNCHANGED <<namingVars, reviewVars, args, serviceVars>>

\* manager.delete_term(term_key)
DeleteTerm(term_key) ==
    /\ LET r == DeleteTermResult(manager, term_key)
       IN /\ manager' = r.manager
          /\ call' = [op |-> "delete_term", key |-> term_key, result |-> r.ok]
    /\ UNCHANGED <<namingVars, reviewVars, args, serviceVars>>

\* manager.update_term(term_key, ...)
UpdateTerm(term_key, upd) ==
    /\ manager.clock < MaxClock
    /\ LET r == UpdateTermResult(manager, term_key, upd)
       IN /\ manager' = r.manager
          /\ call' = [op |-> "update_term", key |-> term_key, args |-> upd,
                      result |-> r.ok]
    /\ UNCHANGED <<namingVars, reviewVars, args, serviceVars>>

\* manager.get_term(key)
GetTermCall(key) ==
    /\ call' = [op |-> "get_term", key |-> key,
                result |-> GetTerm(manager.terms, key)]
    /\ UNCHANGED <<namingVars, storeVars, reviewVars, args, serviceVars>>

\* dictionary.find_matching_term(name)
FindTermCall(name) ==
    /\ call' = [op |-> "find_matching_term", key |-> name,
                result |-> FindMatchingTerm(terms, name)]
    /\ UNCHANGED <<namingVars, storeVars, reviewVars, args, serviceVars>>

NextStore ==
    \/ \E a \in AddCalls : AddTerm(a)
    \/ \E k \in StoreKeys : DeleteTerm(k)
    \/ \E k \in StoreKeys, u \in UpdateCalls : UpdateTerm(k, u)
    \/ \E k \in StoreKeys : GetTermCall(k)
    \/ \E n \in LookupNames : FindTermCall(n)

SpecStore == InitStore /\ [][NextStore]_vars

RefusedCall ==
    /\ call'.op \in {"delete_term", "update_term"}
    /\ \/ GetTerm(manager.terms, call'.key) = None
       \/ TheVal(GetTerm(manager.terms, call'.key)).source = "csv"

\* C8: delete_term and update_term on a key that is absent or resolves to
\* a csv term return False and leave the index, every Term's fields, the
\* custom terms file and the clock as they were.
C8_RefusedLeavesStore ==
    [][RefusedCall => (call'.result = FALSE /\ manager' = manager)]_vars

\* delete_term or update_term has been refused on a key of a csv term
C8_Witness ==
    /\ call.op \in {"delete_term", "update_term"}
    /\ call.result = FALSE
    /\ IsSome(GetTerm(manager.terms, call.key))
    /\ TheVal(GetTerm(manager.terms, call.key)).source = "csv"

\* the step is a delete_term call that returns True
DeleteSucceeds == call'.op = "delete_term" /\ call'.result = TRUE
\* the Term the key of the call resolves to before the step
Deleted == TheVal(GetTerm(manager.terms, call'.key))
\* get_term(key) returns the Term object e
ResolvesTo(index, key, e) ==
    /\ IsSome(GetTerm(index, key))
    /\ TheVal(GetTerm(index, key)).oid = e.oid

ValidAlias(abbreviation) ==
    /\ Len(abbreviation) >= 2
    /\ \A i \in 1..Len(abbreviation) :
          IsAlnum(abbreviation[i]) \/ abbreviation[i] \in {"_", "-"}
\* a standard form of two characters or more can be derived from a valid
\* alias or from an english name of more than two characters
Derivable(english_name, abbreviation) ==
    \/ /\ ValidAlias(abbreviation)
       /\ Len(ReplaceChar(StrLower(abbreviation), "-", <<"_">>)) >= 2
    \/ /\ Len(english_name) > 2
       /\ Len(SnakeFromEnglish(english_name)) >= 2
\* every key of the Term (standard variable, korean name, english name,
\* abbreviation, related terms) resolves to it
IndexedUnderAllKeys(index, e) ==
    /\ ResolvesTo(index, e.standard_variable, e)
    /\ e.korean_name # <<>> => ResolvesTo(index, e.korean_name, e)
    /\ e.english_name # <<>> => ResolvesTo(index, e.english_name, e)
    /\ e.abbreviation # <<>> => ResolvesTo(index, e.abbreviation, e)
    /\ \A i \in 1..Len(e.related_terms) :
          ResolvesTo(index, e.related_terms[i], e)

\* C10: add_term returns False and leaves the store as it was unless a
\* standard form can be derived; when it returns True the new Term is
\* indexed under all of its keys.
C10_AddValidation ==
    [][call'.op = "add_term" =>
          /\ ~Derivable(call'.args.english_name, call'.args.abbreviation)
                => (call'.result = FALSE /\ manager' = manager)
          /\ call'.result = TRUE =>
                \E k \in DictKeys(manager'.terms) :
                   /\ DictGet(manager'.terms, k).oid = call'.oid
                   /\ IndexedUnderAllKeys(manager'.terms,
                                          DictGet(manager'.terms, k))
    ]_vars

(***************************************************************************)
(* TerminologyDictionary._load_from_csv                                    *)
(***************************************************************************)
\* the standard name the loader derives for a row (lines 150-157)
DictCsvStandardName(english_name, abbreviation) ==
    IF /\ abbreviation # <<>>
       /\ Len(abbreviation) >= 2
       /\ StrIsAlnum(ReplaceChar(abbreviation, "_", <<>>))
    THEN ReplaceChar(StrLower(abbreviation), "-", <<"_">>)
    ELSE SnakeFromEnglish(english_name)

\* a row of the csv file yields a term (lines 137-159)
DictCsvRowLoads(row) ==
    /\ Len(row) >= 3
    /\ ~(StrStrip(row[1]) = <<>> /\ StrStrip(row[2]) = <<>>)
    /\ StrStrip(row[2]) # <<>>
    /\ Len(StrStrip(row[2])) > 2
    /\ Len(DictCsvStandardName(StrStrip(row[2]), StrStrip(row[3]))) > 1

\* the related list of a row before list(set(related)) (lines 161-175)
DictCsvRelatedCandidates(english_name, abbreviation, standard_name) ==
    LET eng_variations == << ReplaceChar(StrLower(english_name), " ", <<"_">>),
                             ReplaceChar(StrLower(english_name), " ", <<>>),
                             ReplaceChar(StrLower(english_name), " ", <<"-">>) >>
    IN (IF abbreviation # <<>> /\ StrLower(abbreviation) # standard_name
        THEN <<StrLower(abbreviation)>> ELSE <<>>)
       \o SelectSeq(eng_variations,
                    LAMBDA v : v # standard_name /\ Len(v) > 2)

\* the loop body for a row that yields a term, with the related list that
\* list(set(related)) returned (lines 178-195)
DictLoadCsvRow(d, row, related) ==
    LET korean_name == StrStrip(row[1])
        english_name == StrStrip(row[2])
        abbreviation == StrStrip(row[3])
        standard_name == DictCsvStandardName(english_name, abbreviation)
        added == DictAddTerm(d, standard_name, standard_name,
                             DefaultDescription(korean_name, english_name),
                             related)
    IN IF korean_name # <<>> /\ StrStrip(korean_name) # <<>>
       THEN DictPut(added, StrLower(korean_name),
                    TermEntry(standard_name, standard_name, korean_name, related))
       ELSE added

\* the stores the rows can leave, one for each order of the related lists
RECURSIVE DictLoadRows(_, _)
DictLoadRows(d, rows) ==
    IF rows = <<>> THEN {d}
    ELSE IF ~DictCsvRowLoads(Head(rows)) THEN DictLoadRows(d, Tail(rows))
    ELSE LET row == Head(rows)
             english_name == StrStrip(row[2])
             abbreviation == StrStrip(row[3])
         IN UNION { DictLoadRows(DictLoadCsvRow(d, row, related), Tail(rows)) :
                      related \in ListOfSet(DictCsvRelatedCandidates(
                                     english_name, abbreviation,
                                     DictCsvStandardName(english_name, abbreviation))) }

\* TerminologyDictionary._load_from_csv: the stores it can leave; when no
\* row yields a term it falls back on the default terms
LoadFromCsv(rows) ==
    IF \E i \in 1..Len(rows) : DictCsvRowLoads(rows[i])
    THEN DictLoadRows(EmptyDict, rows)
    ELSE {InitializeDefaultTerms(EmptyDict)}

\* TerminologyDictionary.__init__: csv is None when no path is given or the
\* file does not exist, else Some(rows)
NewDictionaries(csv) ==
    IF IsSome(csv) THEN LoadFromCsv(TheVal(csv))
    ELSE {InitializeDefaultTerms(EmptyDict)}

(***************************************************************************)
(* The TerminologyDictionary's construction and its add_term, as the web   *)
(* interface calls it.                                                     *)
(***************************************************************************)
DictCsvRowUserName == <<KoreanUser, <<"u","s","e","r"," ","n","a","m","e">>,
                        <<"u","s","r">>>>
DictCsvRowKorean == <<<<"h_han","h_geul">>, <<"k","o","r","e","a","n">>, <<>>>>
\* the csv given to the constructor: none, one without a usable row, one
\* row, two rows
DictCsvFiles == { None, Some(<< <<KoreanUser, <<"a","b">>, <<>>>> >>),
                  Some(<<DictCsvRowUserName>>),
                  Some(<<DictCsvRowKorean>>),
                  Some(<<CsvRowAB, CsvRowUser>>) }
\* the identifiers the analyzer is given next to these stores
DictIdentifiers == { KoreanUser \o <<"_","i","d">>,
                     <<"h_han","h_geul","_","i","d">>,
                     <<"u","s","r","_","i","d">>,
                     <<"u","s","e","r","N","a","m","e">>,
                     <<"t","o","t","a","l">> }

\* the arguments of the add_term calls
DictAddCalls ==
    { [key |-> <<"l","o","g","i","n">>,
       standard_name |-> <<"l","o","g","i","n","_","i","d">>,
       description |-> <<"login">>, related_terms |-> << <<"u","s","r">> >>],
      [key |-> <<"C","a","r","t">>, standard_name |-> <<"c","a","r","t">>,
       description |-> <<"cart">>,
       related_terms |-> << <<"b","a","s","k","e","t">> >>],
      [key |-> <<"b","a","s","k","e","t">>,
       standard_name |-> <<"b","a","s","k","e","t">>,
       description |-> <<"basket">>, related_terms |-> <<>>] }

InitDict ==
    /\ terms \in UNION {NewDictionaries(csv) : csv \in DictCsvFiles}
    /\ variable_name \in DictIdentifiers
    /\ target_convention \in {SNAKE_CASE, PASCAL_CASE}
    /\ manager = NoManager
    /\ code = NoCode
    /\ runs = <<>>
    /\ args = NoArgs
    /\ call = NoCall
    /\ analyzer = NoAnalyzer
    /\ statistics = NoStatistics

\* dictionary.add_term(key, standard_name, description, related_terms)
DictionaryAddTerm(a) ==
    /\ terms' = DictAddTerm(terms, a.key, a.standard_name, a.description,
                            a.related_terms)
    /\ call' = [op |-> "dictionary_add_term", args |-> a]
    /\ UNCHANGED <<variable_name, target_convention, storeVars, reviewVars, args,
                 serviceVars>>

NextDict ==
    \/ \E a \in DictAddCalls : DictionaryAddTerm(a)
    \/ Analyze
    \/ \E n \in LookupNames \cup {<<"u","s","r">>, <<"b","a","s","k","e","t">>} :
          FindTermCall(n)

SpecDict == InitDict /\ [][NextDict]_vars

\* C4: in every state of the store, every related term of every entry the
\* store holds looks up to that same entry.
C4_RelatedTermsResolve ==
    \A k \in DictKeys(terms) :
       \A i \in 1..Len(DictGet(terms, k).related_terms) :
          FindMatchingTerm(terms, DictGet(terms, k).related_terms[i])
             = Some(DictGet(terms, k))

(***************************************************************************)
(* CodeReviewer: the regexes over the source text.  A source text is a     *)
(* sequence of characters; "\n" is the line feed.                          *)
(***************************************************************************)
\* the index of the last character of the maximal run of \w starting at i
\* (i - 1 when there is none)
RECURSIVE WordRunEnd(_, _)
WordRunEnd(s, i) ==
    IF i <= Len(s) /\ IsWordChar(s[i]) THEN WordRunEnd(s, i + 1) ELSE i - 1
\* the first index from i on that holds no whitespace
RECURSIVE SkipSpaces(_, _)
SkipSpaces(s, i) ==
    IF i <= Len(s) /\ IsSpace(s[i]) THEN SkipSpaces(s, i + 1) ELSE i
CharAt(s, i) == IF i >= 1 /\ i <= Len(s) THEN s[i] ELSE ""
NoMatch == [end |-> 0, cap |-> <<>>]
Match(end, cap) == [end |-> end, cap |-> cap]

\* r'\b(\w+)\s*=\s*' at position i
MatchAssignment(s, i) ==
    LET e == WordRunEnd(s, i)
        j == SkipSpaces(s, e + 1)
    IN IF /\ IsWordChar(s[i])
          /\ (i = 1 \/ ~IsWordChar(s[i - 1]))
          /\ CharAt(s, j) = "="
       THEN Match(SkipSpaces(s, j + 1) - 1, SubSeq(s, i, e))
       ELSE NoMatch

\* r'def\s+\w+\([^)]*(\w+)[^)]*\)' at position i: the group is left with
\* the last \w character before the first ')'
MatchParameters(s, i) ==
    LET k == SkipSpaces(s, i + 3)
        e == WordRunEnd(s, k)
        closes == {c \in (e + 2)..Len(s) : s[c] = ")"}
        close == CHOOSE c \in closes : \A c2 \in closes : c <= c2
        inner == {q \in (e + 2)..(close - 1) : IsWordChar(s[q])}
        last == CHOOSE q \in inner : \A q2 \in inner : q2 <= q
    IN IF /\ OccursAt(s, <<"d","e","f">>, i)
          /\ k > i + 3
          /\ e >= k
          /\ CharAt(s, e + 1) = "("
          /\ closes # {}
          /\ inner # {}
       THEN Match(close, <<s[last]>>)
       ELSE NoMatch

\* r'for\s+(\w+)\s+in' at position i
MatchForLoop(s, i) ==
    LET k == SkipSpaces(s, i + 3)
        e == WordRunEnd(s, k)
        l == SkipSpaces(s, e + 1)
    IN IF /\ OccursAt(s, <<"f","o","r">>, i)
          /\ k > i + 3
          /\ e >= k
          /\ l > e + 1
          /\ OccursAt(s, <<"i","n">>, l)
       THEN Match(l + 1, SubSeq(s, k, e))
       ELSE NoMatch

\* r'except\s+\w+\s+as\s+(\w+)' at position i
MatchExcept(s, i) ==
    LET k == SkipSpaces(s, i + 6)
        e == WordRunEnd(s, k)
        l == SkipSpaces(s, e + 1)
        n == SkipSpaces(s, l + 2)
        f == WordRunEnd(s, n)
    IN IF /\ OccursAt(s, <<"e","x","c","e","p","t">>, i)
          /\ k > i + 6
          /\ e >= k
          /\ l > e + 1
          /\ OccursAt(s, <<"a","s">>, l)
          /\ n > l + 2
          /\ f >= n
       THEN Match(f, SubSeq(s, n, f))
       ELSE NoMatch

\* r'(\w+)\s*\+=' and the same with -=, *=, /= at position i
MatchAugmented(s, i, op) ==
    LET e == WordRunEnd(s, i)
        j == SkipSpaces(s, e + 1)
    IN IF /\ IsWordChar(s[i])
          /\ CharAt(s, j) = op
          /\ CharAt(s, j + 1) = "="
       THEN Match(j + 1, SubSeq(s, i, e))
       ELSE NoMatch

\* the eight patterns of _extract_variables, by their index in the list
MatchPattern(p, s, i) ==
    IF p = 1 THEN MatchAssignment(s, i)
    ELSE IF p = 2 THEN MatchParameters(s, i)
    ELSE IF p = 3 THEN MatchForLoop(s, i)
    ELSE IF p = 4 THEN MatchExcept(s, i)
    ELSE IF p = 5 THEN MatchAugmented(s, i, "+")
    ELSE IF p = 6 THEN MatchAugmented(s, i, "-")
    ELSE IF p = 7 THEN MatchAugmented(s, i, "*")
    ELSE MatchAugmented(s, i, "/")

\* re.findall(pattern, code): the groups of the matches, left to right,
\* each search starting where the last match ended
RECURSIVE FindAllFrom(_, _, _)
FindAllFrom(p, s, i) ==
    IF i > Len(s) THEN <<>>
    ELSE LET m == MatchPattern(p, s, i)
         IN IF m = NoMatch THEN FindAllFrom(p, s, i + 1)
            ELSE <<m.cap>> \o FindAllFrom(p, s, m.end + 1)
FindAll(p, s) == FindAllFrom(p, s, 1)

\* the keywords _extract_variables filters out
Keywords ==
    { <<"d","e","f">>, <<"c","l","a","s","s">>, <<"i","f">>,
      <<"e","l","s","e">>, <<"e","l","i","f">>, <<"f","o","r">>,
      <<"w","h","i","l","e">>, <<"t","r","y">>,
      <<"e","x","c","e","p","t">>, <<"f","i","n","a","l","l","y">>,
      <<"r","e","t","u","r","n">>, <<"i","m","p","o","r","t">>,
      <<"f","r","o","m">>, <<"T","r","u","e">>, <<"F","a","l","s","e">>,
      <<"N","o","n","e">>, <<"a","n","d">>, <<"o","r">>, <<"n","o","t">>,
      <<"i","n">>, <<"i","s">> }

\* the matches in the order _extract_variables meets them: pattern by
\* pattern, each from left to right
ExtractedInOrder(source) ==
    FindAll(1, source) \o FindAll(2, source) \o FindAll(3, source)
    \o FindAll(4, source) \o FindAll(5, source) \o FindAll(6, source)
    \o FindAll(7, source) \o FindAll(8, source)

\* CodeReviewer._extract_variables: a set
ExtractVariables(source) ==
    {v \in {ExtractedInOrder(source)[i] : i \in 1..Len(ExtractedInOrder(source))} :
        v \notin Keywords /\ Len(v) > 1}


\* VariableNameAnalyzer.detect_naming_convention's re.findall with
\* r'\b([a-zA-Z_]\w*)\b': the words that begin with a Latin letter or an
\* underscore, left to right
RECURSIVE WordsFrom(_, _)
WordsFrom(s, i) ==
    IF i > Len(s) THEN <<>>
    ELSE IF /\ s[i] \in LowerSet \cup UpperSet \cup {"_"}
            /\ (i = 1 \/ ~IsWordChar(s[i - 1]))
         THEN <<SubSeq(s, i, WordRunEnd(s, i))>>
              \o WordsFrom(s, WordRunEnd(s, i) + 1)
         ELSE WordsFrom(s, i + 1)

\* the branch of detect_naming_convention's loop a word takes
WordConvention(var) ==
    IF HasChar(var, "_") /\ StrIsLower(var) THEN SNAKE_CASE
    ELSE IF IsLower(var[1]) /\ \E i \in 2..Len(var) : IsUpper(var[i])
    THEN CAMEL_CASE
    ELSE IF IsUpper(var[1]) /\ \E i \in 1..Len(var) : IsLower(var[i])
    THEN PASCAL_CASE
    ELSE <<>>

\* VariableNameAnalyzer.detect_naming_convention: max() returns the first
\* of the keys with the greatest count
DetectNamingConvention(source) ==
    LET words == WordsFrom(source, 1)
        Count(c) == Cardinality({i \in 1..Len(words) :
                                    WordConvention(words[i]) = c})
    IN IF Count(SNAKE_CASE) >= Count(CAMEL_CASE)
          /\ Count(SNAKE_CASE) >= Count(PASCAL_CASE)
       THEN SNAKE_CASE
       ELSE IF Count(CAMEL_CASE) >= Count(PASCAL_CASE)
       THEN CAMEL_CASE
       ELSE PASCAL_CASE

\* the loop of CodeReviewer.review_code over the variables in the order
\* the iteration yields them
RECURSIVE ReviewEach(_, _, _)
ReviewEach(dictionary, variables, convention) ==
    IF variables = <<>> THEN <<>>
    ELSE AnalyzeVariableName(dictionary, Head(variables), convention)
         \o ReviewEach(dictionary, Tail(variables), convention)

\* CodeReviewer.review_code: the lists it can return.  The variables are a
\* set of strings, and the order a set of strings iterates in follows the
\* strings' hashes, which differ from one interpreter process to the next.
ReviewCodeResults(dictionary, source) ==
    {ReviewEach(dictionary, variables, DetectNamingConvention(source)) :
        variables \in Orderings(ExtractVariables(source))}

(***************************************************************************)
(* The source texts: at most MaxStatements lines, each one of a few        *)
(* statements.  A text is reviewed at most MaxRuns times.                  *)
(***************************************************************************)
MaxStatements == 2
MaxRuns == 2

Statements ==
    {
      <<"u","s","r","_","i","d"," ","="," ","1">>,
      <<"u","s","e","r","N","a","m","e"," ","="," ","u","s","r","_","i","d">>,
      <<"f","o","r"," ","u","s","r"," ","i","n"," ","u","s","e","r","s",":">>,
      <<"t","o","t","a","l"," ","+","="," ","p","w","d">>,
      <<"d","e","f"," ","f","(","u","s","r",","," ","p","w",")",":">>,
      <<"e","x","c","e","p","t"," ","E"," ","a","s"," ","e","r","r",":">>,
      <<"U","s","e","r","I","d"," ","="," ","1">> }

RECURSIVE SourceTexts(_)
SourceTexts(n) ==
    IF n = 0 THEN {<<>>}
    ELSE SourceTexts(n - 1)
         \cup {t \o s \o <<"\n">> : t \in SourceTexts(n - 1), s \in Statements}

\* a CodeReviewer whose dictionary holds the default terms, and a caller
\* holding a source text
InitReview ==
    /\ terms = DefaultTerms
    /\ variable_name = NoName
    /\ target_convention = SNAKE_CASE
    /\ manager = NoManager
    /\ code \in SourceTexts(MaxStatements)
    /\ runs = <<>>
    /\ args = NoArgs
    /\ call = NoCall
    /\ analyzer = NoAnalyzer
    /\ statistics = NoStatistics

\* reviewer.review_code(code)
ReviewCode ==
    /\ Len(runs) < MaxRuns
    /\ \E results \in ReviewCodeResults(terms, code) :
          /\ runs' = Append(runs, results)
          /\ call' = [op |-> "review_code", result |-> results]
    /\ UNCHANGED <<namingVars, storeVars, code, args, serviceVars>>

\* reviewer._extract_variables(code)
ExtractCall ==
    /\ call' = [op |-> "extract_variables", result |-> ExtractVariables(code)]
    /\ UNCHANGED <<namingVars, storeVars, reviewVars, args, serviceVars>>

\* the number of matches re.findall gives for \b[a-z]+(_[a-z]+)+\b: a match
\* begins and ends at a word boundary and holds word characters only, so
\* it is a whole word of that shape
SnakeCount(source) ==
    Cardinality({i \in 1..Len(WordsFrom(source, 1)) :
                    /\ MatchesSnakeRegex(WordsFrom(source, 1)[i])
                    /\ HasChar(WordsFrom(source, 1)[i], "_")})
\* the number of matches of \b[a-z]+([A-Z][a-z]+)+\b
CamelCount(source) ==
    Cardinality({i \in 1..Len(WordsFrom(source, 1)) :
                    /\ MatchesCamelRegex(WordsFrom(source, 1)[i])
                    /\ \E k \in 1..Len(WordsFrom(source, 1)[i]) :
                          IsUpper(WordsFrom(source, 1)[i][k])})
\* AdvancedCodeReviewer._detect_convention
DetectConvention(source) ==
    IF SnakeCount(source) > CamelCount(source) THEN SNAKE_CASE ELSE CAMEL_CASE

\* analyzer.detect_naming_convention(code)
DetectNamingConventionCall ==
    /\ call' = [op |-> "detect_naming_convention",
                result |-> DetectNamingConvention(code)]
    /\ UNCHANGED <<namingVars, storeVars, reviewVars, args, serviceVars>>

\* advanced_reviewer._detect_convention(code)
DetectConventionCall ==
    /\ call' = [op |-> "_detect_convention", result |-> DetectConvention(code)]
    /\ UNCHANGED <<namingVars, storeVars, reviewVars, args, serviceVars>>

NextReview ==
    \/ ReviewCode
    \/ ExtractCall
    \/ DetectNamingConventionCall
    \/ DetectConventionCall

SpecReview == InitReview /\ [][NextReview]_vars

\* the identifiers of a text in the order _extract_variables matches them,
\* each at its first match
RECURSIVE FirstOccurrences(_)
FirstOccurrences(xs) ==
    IF xs = <<>> THEN <<>>
    ELSE LET front == FirstOccurrences(SubSeq(xs, 1, Len(xs) - 1))
             x == xs[Len(xs)]
         IN IF \E i \in 1..Len(front) : front[i] = x THEN front
            ELSE Append(front, x)
ExtractionOrder(source) ==
    SelectSeq(FirstOccurrences(ExtractedInOrder(source)),
              LAMBDA v : v \in ExtractVariables(source))
\* the suggestions of a list are in the order of their names' extraction
InExtractionOrder(results, source) ==
    LET order == ExtractionOrder(source)
        Position(v) == CHOOSE i \in 1..Len(order) : order[i] = v
    IN \A i, j \in 1..Len(results) :
          i < j => Position(results[i].original_name)
                      < Position(results[j].original_name)

\* C6: the reviews of one source text with one dictionary all return the
\* same list of suggestions, and the suggestions of a list are in the
\* order in which their identifiers were extracted from the text.
C6_ReviewDeterministicInExtractionOrder ==
    /\ \A i, j \in 1..Len(runs) : runs[i] = runs[j]
    /\ \A i \in 1..Len(runs) : InExtractionOrder(runs[i], code)


(***************************************************************************)
(* The derivation of the standard form at the three places that derive     *)
(* one: TerminologyManager.add_term, TerminologyManager._load_csv_terms    *)
(* and TerminologyDictionary._load_from_csv.  The caller holds an english  *)
(* name and an abbreviation, the latter a string of at most MaxAliasChars  *)
(* characters.                                                             *)
(***************************************************************************)
MaxAliasChars == 3

AliasAlphabet == {"a", "B", "1", "-", "_", " "}
RECURSIVE AliasStrings(_)
AliasStrings(n) ==
    IF n = 0 THEN {<<>>}
    ELSE AliasStrings(n - 1)
         \cup {Append(s, c) : s \in AliasStrings(n - 1), c \in AliasAlphabet}
EnglishNames ==
    { <<>>, <<"i","d">>, <<"U","s","e","r">>,
      <<"U","s","e","r"," ","I","d">>, <<"-","-","a">> }

InitDerive ==
    /\ terms = DefaultTerms
    /\ variable_name = NoName
    /\ target_convention = SNAKE_CASE
    /\ manager = NoManager
    /\ code = NoCode
    /\ runs = <<>>
    /\ args \in [english_name : EnglishNames,
                 abbreviation : AliasStrings(MaxAliasChars)]
    /\ call = NoCall
    /\ analyzer = NoAnalyzer
    /\ statistics = NoStatistics

\* add_term, lines 200-211: the standard variable name it derives, None
\* when it has returned False before
DeriveAtAdd ==
    /\ call' = [op |-> "derive", site |-> "TerminologyManager.add_term",
                result |->
                   IF args.english_name = <<>> \/ Len(args.english_name) < 2
                   THEN None
                   ELSE Some(AddStandardVar(args.english_name,
                                            args.abbreviation))]
    /\ UNCHANGED <<namingVars, storeVars, reviewVars, args, serviceVars>>

\* _load_csv_terms, lines 70-80: the standard variable name it derives for
\* a row, None when it skips the row
DeriveAtManagerLoad ==
    /\ call' = [op |-> "derive", site |-> "TerminologyManager._load_csv_terms",
                result |-> CsvStandardVar(args.english_name, args.abbreviation)]
    /\ UNCHANGED <<namingVars, storeVars, reviewVars, args, serviceVars>>

\* _load_from_csv, lines 148-157: the standard name it derives for a row,
\* None when it skips the row
DeriveAtDictionaryLoad ==
    /\ call' = [op |-> "derive",
                site |-> "TerminologyDictionary._load_from_csv",
                result |->
                   IF args.english_name # <<>> /\ Len(args.english_name) > 2
                   THEN Some(DictCsvStandardName(args.english_name,
                                                 args.abbreviation))
                   ELSE None]
    /\ UNCHANGED <<namingVars, storeVars, reviewVars, args, serviceVars>>

NextDerive ==
    \/ DeriveAtAdd
    \/ DeriveAtManagerLoad
    \/ DeriveAtDictionaryLoad

SpecDerive == InitDerive /\ [][NextDerive]_vars

\* the standard form of the documented derivation: the abbreviation when it
\* is a valid alias, else the form derived from the english name
DocumentedStandardForm(english_name, abbreviation) ==
    IF ValidAlias(abbreviation)
    THEN ReplaceChar(StrLower(abbreviation), "-", <<"_">>)
    ELSE SnakeFromEnglish(english_name)

\* C11: the standard form add_term and the two csv loaders derive from an
\* english name and an abbreviation is the same at the three places: the
\* lower-cased abbreviation with hyphens turned into underscores when the
\* abbreviation has two characters or more, all alphanumeric, underscore or
\* hyphen, and the form derived from the english name otherwise.
C11_SameDerivationAtLoadAndAdd ==
    (call.op = "derive" /\ IsSome(call.result))
       => TheVal(call.result)
             = DocumentedStandardForm(args.english_name, args.abbreviation)


\* the lookup returned an entry whose standard form is the given one
ResolvesToStandard(result, standard) ==
    /\ IsSome(result)
    /\ \/ /\ "standard_variable_name" \in DOMAIN TheVal(result)
          /\ TheVal(result).standard_variable_name = standard
       \/ /\ "standard_variable" \in DOMAIN TheVal(result)
          /\ TheVal(result).standard_variable = standard

\* C12: a store constructed while its terminology source is absent or
\* unreadable resolves the built-in vocabulary: the lookup of "pwd" returns
\* the entry whose standard form is "password", from the
\* TerminologyDictionary and from the TerminologyManager alike.
C12_FallbackResolvesBuiltIn ==
    /\ (call.op = "find_matching_term" /\ call.key = <<"p","w","d">>
        /\ terms \in NewDictionaries(None))
          => ResolvesToStandard(call.result, <<"p","a","s","s","w","o","r","d">>)
    /\ (call.op = "get_term" /\ call.key = <<"p","w","d">>
        /\ manager \in NewManagers(<<>>))
          => ResolvesToStandard(call.result, <<"p","a","s","s","w","o","r","d">>)


\* the identifier with every maximal run of Hangul that the store's lookup
\* resolves replaced by the term of the entry found
RECURSIVE RewrittenByStoreFrom(_, _, _)
RewrittenByStoreFrom(store, name, i) ==
    IF i > Len(name) THEN <<>>
    ELSE IF ~IsHangul(name[i])
    THEN <<name[i]>> \o RewrittenByStoreFrom(store, name, i + 1)
    ELSE LET ends == {e \in i..Len(name) :
                         /\ \A k \in i..e : IsHangul(name[k])
                         /\ e = Len(name) \/ ~IsHangul(name[e + 1])}
             e == CHOOSE e \in ends : TRUE
             found == FindMatchingTerm(store, SubSeq(name, i, e))
         IN (IF IsSome(found) THEN TheVal(found).term ELSE SubSeq(name, i, e))
            \o RewrittenByStoreFrom(store, name, e + 1)
RewrittenByStore(store, name) == RewrittenByStoreFrom(store, name, 1)

\* C14: for an identifier with a Hangul character and a Latin letter, every
\* run of Hangul that the store's lookup resolves is replaced by the term of
\* the entry found, and when a run was replaced analyze_variable_name
\* returns the convention applied to the rewritten identifier, with reason
\* MixedLanguage and confidence 0.9, whatever the later rules would give.
C14_MixedLanguageRewrite ==
    (/\ call.op = "analyze"
     /\ HasMixedLanguages(variable_name)
     /\ RewrittenByStore(terms, variable_name) # variable_name)
       => /\ IsSome(call.result)
          /\ TheVal(call.result).reason = MixedLanguage
          /\ TheVal(call.result).confidence = 90
          /\ TheVal(call.result).suggested_name
                = ApplyConvention(RewrittenByStore(terms, variable_name),
                                  target_convention)


\* C15: for an identifier that fails the target convention's regex and for
\* which neither the mixed-language, the abbreviation nor the dictionary
\* rule fires, analyze_variable_name returns the convention applied to the
\* identifier itself, with reason ConventionMismatch and confidence 0.8;
\* userName with target snake_case then becomes user_name.
C15_ConventionSuggestion ==
    (/\ call.op = "analyze"
     /\ ~MatchesConvention(variable_name, target_convention)
     /\ ~MixedRuleFires(variable_name, target_convention)
     /\ ~AbbreviationRuleFires(terms, variable_name)
     /\ ~DictionaryRuleFires(terms, variable_name))
       => /\ IsSome(call.result)
          /\ TheVal(call.result).original_name = variable_name
          /\ TheVal(call.result).suggested_name
                = ApplyConvention(variable_name, target_convention)
          /\ TheVal(call.result).reason = ConventionMismatch
          /\ TheVal(call.result).confidence = 80
          /\ (variable_name = <<"u","s","e","r","N","a","m","e">>
              /\ target_convention = SNAKE_CASE)
                => TheVal(call.result).suggested_name
                      = <<"u","s","e","r","_","n","a","m","e">>

\* analyze_variable_name has answered for userName with target snake_case
\* on a store in which neither userName nor its expansion is found
C15_Witness ==
    /\ call.op = "analyze"
    /\ variable_name = <<"u","s","e","r","N","a","m","e">>
    /\ target_convention = SNAKE_CASE
    /\ ~AbbreviationRuleFires(terms, variable_name)
    /\ ~DictionaryRuleFires(terms, variable_name)
    /\ IsSome(call.result)
    /\ TheVal(call.result).reason = ConventionMismatch


\* C16: analyze_variable_name returns None for every identifier that
\* matches the target convention's regex, has no part in the abbreviation
\* table, and which the store resolves either to no entry or to an entry
\* whose standard form is the identifier; total with target snake_case
\* gets None.
C16_NullWhenNothingApplies ==
    call.op = "analyze" =>
       /\ (/\ MatchesConvention(variable_name, target_convention)
           /\ \A i \in 1..Len(SplitNameParts(variable_name)) :
                 ~IsAbbreviation(StrLower(SplitNameParts(variable_name)[i]))
           /\ \/ ~IsSome(FindMatchingTerm(terms, variable_name))
              \/ TheVal(FindMatchingTerm(terms, variable_name)).standard_variable_name
                    = variable_name)
          => call.result = None
       /\ (variable_name = <<"t","o","t","a","l">>
           /\ target_convention = SNAKE_CASE)
          => call.result = None


\* the votes detect_naming_convention counts for a convention: the words
\* of the text that take the convention's branch
Votes(source, convention) ==
    Cardinality({i \in 1..Len(WordsFrom(source, 1)) :
                    WordConvention(WordsFrom(source, 1)[i]) = convention})
\* the first of snake_case, camelCase and PascalCase among those with the
\* greatest of the three counts
FirstMaximal(snake, camel, pascal) ==
    IF snake >= camel /\ snake >= pascal THEN SNAKE_CASE
    ELSE IF camel >= pascal THEN CAMEL_CASE
    ELSE PASCAL_CASE

\* C17: the convention a detector returns has the greatest vote count among
\* snake_case, camelCase and PascalCase, and is the earliest of those that
\* tie for it (snake_case for a text without votes), for the basic
\* reviewer's detect_naming_convention and for the advanced reviewer's
\* _detect_convention, which counts no PascalCase votes.
C17_DetectFirstMaximal ==
    /\ call.op = "detect_naming_convention" =>
          call.result = FirstMaximal(Votes(code, SNAKE_CASE),
                                     Votes(code, CAMEL_CASE),
                                     Votes(code, PASCAL_CASE))
    /\ call.op = "_detect_convention" =>
          call.result = FirstMaximal(SnakeCount(code), CamelCount(code), 0)


(***************************************************************************)
(* Applying suggestions to a source text:                                  *)
(* EnhancedCodeReviewer._apply_transformation and                          *)
(* BatchTransformer.apply_transformations.                                 *)
(***************************************************************************)
\* \b at the position before source[p]: exactly one of the characters on
\* the two sides is a word character
WordBoundary(source, p) ==
    (p > 1 /\ p - 1 <= Len(source) /\ IsWordChar(source[p - 1]))
       # (p <= Len(source) /\ IsWordChar(source[p]))

\* re.sub(pattern, suggestion, code) with pattern \b<original>\b, for a
\* non-empty original and a suggestion without backslash: the matches are
\* taken from left to right, each search resuming behind the last match
RECURSIVE SubFrom(_, _, _, _)
SubFrom(source, original, suggestion, i) ==
    IF i > Len(source) THEN <<>>
    ELSE IF /\ WordBoundary(source, i)
            /\ OccursAt(source, original, i)
            /\ WordBoundary(source, i + Len(original))
    THEN suggestion \o SubFrom(source, original, suggestion, i + Len(original))
    ELSE <<source[i]>> \o SubFrom(source, original, suggestion, i + 1)

\* a replacement of every occurrence, whatever surrounds it
ApplyWithoutBoundaries(source, original, suggestion) ==
    StrReplace(source, original, suggestion)
\* EnhancedCodeReviewer._apply_transformation
ApplyTransformation(source, original, suggestion) ==
    SubFrom(source, original, suggestion, 1)

\* the loop of EnhancedCodeReviewer.review_code that applies the results
RECURSIVE ImprovedCode(_, _)
ImprovedCode(improved_code, results) ==
    IF results = <<>> THEN improved_code
    ELSE ImprovedCode(
            IF Head(results).suggested_name # Head(results).original_name
            THEN ApplyTransformation(improved_code, Head(results).original_name,
                                     Head(results).suggested_name)
            ELSE improved_code,
            Tail(results))

\* str.rfind
RFind(s, sub) ==
    IF \E i \in 1..Len(s) : OccursAt(s, sub, i)
    THEN (CHOOSE i \in 1..Len(s) :
             /\ OccursAt(s, sub, i)
             /\ \A j \in (i + 1)..Len(s) : ~OccursAt(s, sub, j)) - 1
    ELSE -1

\* sorted(results, key=lambda r: code.rfind(r.original_name), reverse=True):
\* greatest key first, equal keys in the order of the list
SortedResults(source, results) ==
    LET key(i) == RFind(source, results[i].original_name)
        rank(i) == 1 + Cardinality({j \in 1..Len(results) :
                          \/ key(j) > key(i)
                          \/ key(j) = key(i) /\ j < i})
    IN [p \in 1..Len(results) |->
          results[CHOOSE i \in 1..Len(results) : rank(i) = p]]

RECURSIVE TransformedBy(_, _)
TransformedBy(transformed, sorted_results) ==
    IF sorted_results = <<>> THEN transformed
    ELSE TransformedBy(
            SubFrom(transformed, Head(sorted_results).original_name,
                    Head(sorted_results).suggested_name, 1),
            Tail(sorted_results))

\* BatchTransformer.apply_transformations
ApplyTransformations(source, results) ==
    IF results = <<>> THEN source
    ELSE TransformedBy(source, SortedResults(source, results))

MaxFragments == 3
TextFragments ==
    { <<"u","s","r">>, <<"u","s","e","r">>, <<"1">>, <<" ">>,
      <<"u","s","r","_","i","d">>, <<"h_sa">> }
RECURSIVE Texts(_)
Texts(n) ==
    IF n = 0 THEN {<<>>}
    ELSE Texts(n - 1) \cup {t \o f : t \in Texts(n - 1), f \in TextFragments}
\* the results of a review: original and suggested name
Renamings ==
    { [original_name |-> <<"u","s","r">>, suggested_name |-> <<"u","s","e","r">>],
      [original_name |-> <<"u","s","e","r">>, suggested_name |-> <<"u","s","r">>],
      [original_name |-> <<"u","s","r">>, suggested_name |-> <<"u","s","r","_","1">>] }
\* the variables of a review are a set: no two results for one name
ResultLists ==
    {<<r>> : r \in Renamings}
    \cup {l \in {<<r, q>> : r \in Renamings, q \in Renamings} :
             l[1].original_name # l[2].original_name}

\* a source text and the results of its review
InitApply ==
    /\ terms = DefaultTerms
    /\ variable_name = NoName
    /\ target_convention = SNAKE_CASE
    /\ manager = NoManager
    /\ code \in Texts(MaxFragments)
    /\ runs = <<>>
    /\ args \in ResultLists
    /\ call = NoCall
    /\ analyzer = NoAnalyzer
    /\ statistics = NoStatistics

\* the transformation loop of EnhancedCodeReviewer.review_code
ApplyTransformationCall ==
    /\ call' = [op |-> "apply_transformation",
                result |-> ImprovedCode(code, args)]
    /\ UNCHANGED <<namingVars, storeVars, reviewVars, args, serviceVars>>

\* transformer.apply_transformations(code, results)
ApplyTransformationsCall ==
    /\ call' = [op |-> "apply_transformations",
                result |-> ApplyTransformations(code, args)]
    /\ UNCHANGED <<namingVars, storeVars, reviewVars, args, serviceVars>>

NextApply ==
    \/ ApplyTransformationCall
    \/ ApplyTransformationsCall

SpecApply == InitApply /\ [][NextApply]_vars

\* the tokens of a text from position i on: the maximal runs of word
\* characters, and every other character on its own
RECURSIVE TokensFrom(_, _)
TokensFrom(text, i) ==
    IF i > Len(text) THEN <<>>
    ELSE IF IsWordChar(text[i])
    THEN <<SubSeq(text, i, WordRunEnd(text, i))>>
         \o TokensFrom(text, WordRunEnd(text, i) + 1)
    ELSE <<<<text[i]>>>> \o TokensFrom(text, i + 1)
\* the text from position i on with every token that is the original
\* replaced by the suggested name and every other token kept
RECURSIVE SubstitutedFrom(_, _, _)
SubstitutedFrom(text, r, i) ==
    IF i > Len(text) THEN <<>>
    ELSE IF ~IsWordChar(text[i])
    THEN <<text[i]>> \o SubstitutedFrom(text, r, i + 1)
    ELSE (IF SubSeq(text, i, WordRunEnd(text, i)) = r.original_name
          THEN r.suggested_name
          ELSE SubSeq(text, i, WordRunEnd(text, i)))
         \o SubstitutedFrom(text, r, WordRunEnd(text, i) + 1)
WholeWordSubstituted(text, r) == SubstitutedFrom(text, r, 1)

\* C18: applying a suggestion to a source text replaces every whole-word
\* occurrence of the original name by the suggested name and changes nothing
\* else: a token that contains the original as a proper substring and the
\* text outside the occurrences stay as they are.  The enhanced reviewer and
\* the batch transformer apply the suggestions of a list one after the
\* other.
C18_WholeWordSubstitution ==
    call.op \in {"apply_transformation", "apply_transformations"} =>
       /\ Len(args) = 1 => call.result = WholeWordSubstituted(code, args[1])
       /\ Len(args) = 2 =>
             \/ call.result = WholeWordSubstituted(
                                 WholeWordSubstituted(code, args[1]), args[2])
             \/ call.result = WholeWordSubstituted(
                                 WholeWordSubstituted(code, args[2]), args[1])

\* one suggestion was applied to a text that holds the original name as a
\* word of its own and inside a longer word, and the text changed
C18_Witness ==
    /\ call.op = "apply_transformation"
    /\ Len(args) = 1
    /\ \E i, j \in 1..Len(TokensFrom(code, 1)) :
          /\ TokensFrom(code, 1)[i] = args[1].original_name
          /\ TokensFrom(code, 1)[j] # args[1].original_name
          /\ \E k \in 1..Len(TokensFrom(code, 1)[j]) :
                OccursAt(TokensFrom(code, 1)[j], args[1].original_name, k)
    /\ call.result # code


\* a signal of analyze_with_evidence produced a candidate name: the store
\* resolves the identifier or its expansion, the context gives a name, or a
\* similar term was found
CandidateExists(store, name, context) ==
    \/ IsSome(FindMatchingTerm(store, name))
    \/ /\ CheckAbbreviations(name) # name
       /\ IsSome(FindMatchingTerm(store, CheckAbbreviations(name)))
    \/ /\ IsSome(AnalyzeByContext(name, context))
       /\ TheVal(AnalyzeByContext(name, context)) # <<>>
    \/ FindSimilarTerms(store, name) # <<>>
\* an evidence record exists without a candidate: the abbreviation was
\* expanded, or a convention issue was noted
EvidenceWithoutCandidate(store, name, context, convention) ==
    /\ ~CandidateExists(store, name, context)
    /\ \/ CheckAbbreviations(name) # name
       \/ IsSome(CheckConventionIssues(name, convention))

\* C19: analyze_with_evidence returns None exactly when no signal produced
\* a candidate name, also when evidence records exist (an expanded
\* abbreviation without a dictionary hit, a convention issue) but no
\* candidate does; with at least one candidate it returns a suggestion.
C19_NullIffNoCandidate ==
    call.op = "analyze_with_evidence" =>
       /\ (call.result = None)
             <=> ~CandidateExists(terms, variable_name, call.context)
       /\ EvidenceWithoutCandidate(terms, variable_name, call.context,
                                   target_convention)
             => call.result = None

\* analyze_with_evidence has returned None for an identifier with an
\* evidence record and no candidate
C19_Witness ==
    /\ call.op = "analyze_with_evidence"
    /\ EvidenceWithoutCandidate(terms, variable_name, call.context,
                                target_convention)
    /\ call.result = None

\* min(1.0, sum of the weights / number of records)
ClampedMeanWeight(evidences) ==
    IF FracLess(Frac(1, 1),
                FracMul(TotalWeight(evidences), Frac(1, Len(evidences))))
    THEN Frac(1, 1)
    ELSE FracMul(TotalWeight(evidences), Frac(1, Len(evidences)))

\* C20: the confidence of every suggestion analyze_with_evidence returns is
\* min(1.0, sum of the weights of all collected evidence records / number
\* of the records), whatever the confidence of the winning candidate.
C20_ConfidenceIsMeanWeight ==
    (call.op = "analyze_with_evidence" /\ IsSome(call.result)) =>
       /\ TheVal(call.result).evidences
             = CollectEvidence(terms, variable_name, call.context,
                               target_convention).evidences
       /\ TheVal(call.result).evidences # <<>>
       /\ FracEq(TheVal(call.result).confidence,
                 ClampedMeanWeight(TheVal(call.result).evidences))

\* analyze_with_evidence has returned a suggestion resting on several
\* evidence records of different weights, whose confidence is not that of
\* the winning candidate
C20_Witness ==
    /\ call.op = "analyze_with_evidence"
    /\ IsSome(call.result)
    /\ Len(TheVal(call.result).evidences) >= 2
    /\ \E i, j \in 1..Len(TheVal(call.result).evidences) :
          FracLess(TheVal(call.result).evidences[i].weight,
                   TheVal(call.result).evidences[j].weight)
    /\ ~FracEq(TheVal(call.result).confidence,
               SortDescending(CollectEvidence(terms, variable_name, call.context,
                                 target_convention).suggestions)[1][2])


\* C21: the reason of every suggestion analyze_with_evidence returns is the
\* one mapped from the evidence record of the greatest weight among all
\* collected records, the first of them on a tie, also when that record
\* produced no candidate name.
C21_ReasonFromHeaviestEvidence ==
    (call.op = "analyze_with_evidence" /\ IsSome(call.result)) =>
       \E i \in 1..Len(TheVal(call.result).evidences) :
          /\ \A j \in 1..Len(TheVal(call.result).evidences) :
                FracLeq(TheVal(call.result).evidences[j].weight,
                        TheVal(call.result).evidences[i].weight)
          /\ \A j \in 1..(i - 1) :
                FracLess(TheVal(call.result).evidences[j].weight,
                         TheVal(call.result).evidences[i].weight)
          /\ TheVal(call.result).reason
                = GetReasonFromEvidence(TheVal(call.result).evidences[i])

\* analyze_with_evidence has returned a suggestion whose reason is that of
\* the abbreviation record, the heaviest of several, although the expansion
\* was not found in the store and the candidate came from another signal
C21_Witness ==
    /\ call.op = "analyze_with_evidence"
    /\ IsSome(call.result)
    /\ Len(TheVal(call.result).evidences) >= 2
    /\ TheVal(call.result).reason = MeaninglessAbbreviation
    /\ AbbreviationStep(terms, variable_name).suggestions = <<>>


\* C22: whenever the identifier does not match the regex of the target
\* convention the advanced reviewer passes, a member snake_case or camelCase
\* of NamingConvention, analyze_with_evidence collects an evidence record of
\* source naming_convention and weight 0.6, and that record adds no
\* candidate name.
C22_ConventionEvidenceCollected ==
    (/\ call.op = "analyze_with_evidence"
     /\ target_convention \in {SNAKE_CASE, CAMEL_CASE}
     /\ ~MatchesConvention(variable_name, target_convention))
       => /\ \E i \in 1..Len(CollectEvidence(terms, variable_name, call.context,
                                             target_convention).evidences) :
                CollectEvidence(terms, variable_name, call.context,
                                target_convention).evidences[i]
                   = Evidence("naming_convention", Frac(6, 10))
          /\ ConventionStep(variable_name, target_convention).suggestions = <<>>
          /\ IsSome(call.result) =>
                \E i \in 1..Len(TheVal(call.result).evidences) :
                   TheVal(call.result).evidences[i].source = "naming_convention"


(***************************************************************************)
(* The derivation of a standard form from a canonical name, applied to a   *)
(* name and to its own result.                                             *)
(***************************************************************************)
MaxNameChars == 4
NameAlphabet == {"a", "B", "_", " ", "-", "\n"}
RECURSIVE NameStrings(_)
NameStrings(n) ==
    IF n = 0 THEN {<<>>}
    ELSE NameStrings(n - 1)
         \cup {Append(s, c) : s \in NameStrings(n - 1), c \in NameAlphabet}

\* a caller holding a canonical name
InitName ==
    /\ terms = DefaultTerms
    /\ variable_name = NoName
    /\ target_convention = SNAKE_CASE
    /\ manager = NoManager
    /\ code = NoCode
    /\ runs = <<>>
    /\ args \in [english_name : NameStrings(MaxNameChars)]
    /\ call = NoCall
    /\ analyzer = NoAnalyzer
    /\ statistics = NoStatistics

\* the four statements that derive standard_var from english_name
DeriveFromName ==
    /\ call' = [op |-> "derive_from_name",
                result |-> SnakeFromEnglish(args.english_name)]
    /\ UNCHANGED <<namingVars, storeVars, reviewVars, args, serviceVars>>

\* the same statements on the form they derived
DeriveFromDerived ==
    /\ call' = [op |-> "derive_from_derived",
                first |-> SnakeFromEnglish(args.english_name),
                result |-> SnakeFromEnglish(SnakeFromEnglish(args.english_name))]
    /\ UNCHANGED <<namingVars, storeVars, reviewVars, args, serviceVars>>

NextName ==
    \/ DeriveFromName
    \/ DeriveFromDerived

SpecName == InitName /\ [][NextName]_vars

\* C23: the derivation of a standard form from a canonical name (lower
\* case, characters that are neither word characters nor whitespace
\* removed, spaces turned into underscores, runs of underscores collapsed,
\* underscores trimmed at both ends) is idempotent: deriving from a derived
\* form returns that form.
C23_DerivationIdempotent ==
    call.op = "derive_from_derived" => call.result = call.first

\* the derivation was applied twice to a name it changes into a form of
\* several parts
C23_Witness ==
    /\ call.op = "derive_from_derived"
    /\ call.first # args.english_name
    /\ HasChar(call.first, "_")
    /\ call.result = call.first


\* C24: every suggestion analyze_variable_name returns for an identifier of
\* two or more characters has a non-empty suggested name, and
\* _apply_convention gives no empty string for such an identifier.
C24_SuggestedNameNotEmpty ==
    /\ (call.op = "analyze" /\ Len(variable_name) >= 2 /\ IsSome(call.result))
          => TheVal(call.result).suggested_name # <<>>
    /\ (call.op = "apply_convention" /\ ~call.again /\ Len(variable_name) >= 2)
          => call.result # <<>>


\* C25: analyze_variable_name returns a suggestion with reason
\* MeaninglessAbbreviation, or with the abbreviation rule's confidence 0.85,
\* only for an identifier of which a part, in lower case, is a key of the
\* abbreviation table.
C25_AbbreviationOnlyForAbbreviations ==
    (/\ call.op = "analyze"
     /\ IsSome(call.result)
     /\ \/ TheVal(call.result).reason = MeaninglessAbbreviation
        \/ TheVal(call.result).confidence = 85)
       => \E i \in 1..Len(SplitNameParts(variable_name)) :
             IsAbbreviation(StrLower(SplitNameParts(variable_name)[i]))


\* the text from position i on with every token that is the original name
\* of a result replaced by that result's suggested name, all at once
RECURSIVE RenamedFrom(_, _, _)
RenamedFrom(text, results, i) ==
    IF i > Len(text) THEN <<>>
    ELSE IF ~IsWordChar(text[i])
    THEN <<text[i]>> \o RenamedFrom(text, results, i + 1)
    ELSE (IF \E k \in 1..Len(results) :
                results[k].original_name = SubSeq(text, i, WordRunEnd(text, i))
          THEN results[CHOOSE k \in 1..Len(results) :
                          results[k].original_name
                             = SubSeq(text, i, WordRunEnd(text, i))].suggested_name
          ELSE SubSeq(text, i, WordRunEnd(text, i)))
         \o RenamedFrom(text, results, WordRunEnd(text, i) + 1)

\* C26: the code improved by a list of suggestions applied one after the
\* other does not depend on their order: every whole-word occurrence of an
\* original name in the input has become that name's own suggested name,
\* and no replacement was renamed again by another suggestion.
C26_ApplicationOrderIndependent ==
    call.op \in {"apply_transformation", "apply_transformations"} =>
       call.result = RenamedFrom(code, args, 1)


\* C27: a successful add_term, update_term or delete_term touches only the
\* keys of the manual term it is about: every key that held a csv term
\* before the call holds the same term after it, unless the call assigned
\* the key to the manual term it added or re-indexed.
C27_CsvKeysKept ==
    [][call'.op \in {"add_term", "update_term", "delete_term"} =>
          \A k \in DictKeys(manager.terms) :
             DictGet(manager.terms, k).source = "csv" =>
                /\ k \in DictKeys(manager'.terms)
                /\ \/ DictGet(manager'.terms, k) = DictGet(manager.terms, k)
                   \/ /\ call'.op # "delete_term"
                      /\ DictGet(manager'.terms, k).source = "manual"
    ]_vars


(***************************************************************************)
(* TerminologyDictionary._load_from_csv, one encoding attempt at a time    *)
(* (variable_name_standardizer.py 126-211).  A file is the rows the csv    *)
(* reader yields and, for each encoding of the list at line 128, how many  *)
(* of them it yields under that encoding before the attempt ends: with a   *)
(* UnicodeDecodeError raised part-way (error) or at the end of the file.   *)
(***************************************************************************)
Encodings == <<"utf-8-sig", "utf-8", "cp949", "euc-kr">>

\* the rows an attempt reads before it ends
RowsRead(rows, attempt) == SubSeq(rows, 1, attempt.read)

\* terms_loaded > 0 at line 199 of an attempt that raised nothing
AttemptLoads(rows, attempt) ==
    /\ ~attempt.error
    /\ \E i \in 1..attempt.read : DictCsvRowLoads(rows[i])

\* the for loop over the encodings: self.terms is the same dict in every
\* attempt, each row read is stored as it is read (lines 181-190), a failed
\* attempt continues with the next encoding, and after the last one the
\* defaults are added (line 211)
RECURSIVE LoadFromCsvAttempts(_, _, _)
LoadFromCsvAttempts(d, rows, attempts) ==
    IF attempts = <<>> THEN {InitializeDefaultTerms(d)}
    ELSE UNION { IF AttemptLoads(rows, Head(attempts)) THEN {after}
                 ELSE LoadFromCsvAttempts(after, rows, Tail(attempts)) :
                   after \in DictLoadRows(d, RowsRead(rows, Head(attempts))) }

\* the files given to the constructor
LoadFileRows == { <<DictCsvRowKorean, CsvRowAB>>,
                  <<CsvRowAB>> }
\* what one encoding does with a file: it decodes all of it, or fails
\* after some of its rows
AttemptsOf(rows) ==
    { [read |-> Len(rows), error |-> FALSE] }
       \cup { [read |-> n, error |-> TRUE] : n \in 0..Len(rows) }
LoadFiles ==
    UNION { { [rows |-> rows, attempts |-> a] :
                a \in [1..Len(Encodings) -> AttemptsOf(rows)] } :
            rows \in LoadFileRows }

\* the constructor has set self.terms = {} (line 51) and holds the file
InitLoad ==
    /\ terms = EmptyDict
    /\ variable_name = NoName
    /\ target_convention = SNAKE_CASE
    /\ manager = NoManager
    /\ code = NoCode
    /\ runs = <<>>
    /\ args \in LoadFiles
    /\ call = NoCall
    /\ analyzer = NoAnalyzer
    /\ statistics = NoStatistics

\* TerminologyDictionary(csv_path) with an existing file (lines 53-54)
LoadFromCsvCall ==
    /\ call = NoCall
    /\ terms' \in LoadFromCsvAttempts(terms, args.rows, args.attempts)
    /\ call' = [op |-> "load_from_csv"]
    /\ UNCHANGED <<variable_name, target_convention, manager, reviewVars, args,
                 serviceVars>>

\* a lookup in the constructed store
LoadedFindTerm(name) ==
    /\ call # NoCall
    /\ call' = [op |-> "find_matching_term", key |-> name,
                result |-> FindMatchingTerm(terms, name)]
    /\ UNCHANGED <<namingVars, storeVars, reviewVars, args, serviceVars>>

NextLoad ==
    \/ LoadFromCsvCall
    \/ \E n \in {<<"u","s","r">>, <<"p","w","d">>} : LoadedFindTerm(n)

SpecLoad == InitLoad /\ [][NextLoad]_vars

\* C28: once the dictionary is constructed from a file, its store is
\* exactly the rows read under the one encoding that won, or, when no
\* encoding won, exactly the built-in vocabulary.
C28_SingleOrigin ==
    call # NoCall =>
       IF \E i \in 1..Len(args.attempts) : AttemptLoads(args.rows, args.attempts[i])
       THEN terms \in DictLoadRows(EmptyDict, args.rows)
       ELSE terms = DefaultTerms


(***************************************************************************)
(* RealTimeAnalyzer (batch_processor.py 151-241): a client thread calling  *)
(* start, stop, analyze and get_results, and the worker threads start      *)
(* creates.  A worker is at the test of its while loop ("while"), in       *)
(* analysis_queue.get ("get"), between the get and the put, where          *)
(* review_code runs ("review"), or past its loop ("done").  Requests are   *)
(* numbered in the order analyze is called.                                *)
(***************************************************************************)
MaxThreads == 2
MaxRequests == 2

Worker(pc, item) == [pc |-> pc, item |-> item]
\* the threads that were started and have not left _worker
LiveWorkers(a) == { t \in 1..Len(a.threads) : a.threads[t].pc # "done" }

\* RealTimeAnalyzer.__init__
NewRealTimeAnalyzer ==
    [running |-> FALSE, worker_thread |-> 0, threads |-> <<>>,
     analysis_queue |-> <<>>, result_queue |-> <<>>, received |-> <<>>,
     requests |-> 0, caller |-> "idle"]

InitRealTime ==
    /\ terms = DefaultTerms
    /\ variable_name = NoName
    /\ target_convention = SNAKE_CASE
    /\ manager = NoManager
    /\ code = NoCode
    /\ runs = <<>>
    /\ args = NoArgs
    /\ call = NoCall
    /\ analyzer = NewRealTimeAnalyzer
    /\ statistics = NoStatistics

\* RealTimeAnalyzer.start
Start ==
    /\ analyzer.caller = "idle"
    /\ analyzer.running \/ Len(analyzer.threads) < MaxThreads
    /\ analyzer' =
          IF ~analyzer.running
          THEN [analyzer EXCEPT
                  !.running = TRUE,
                  !.threads = Append(@, Worker("while", 0)),
                  !.worker_thread = Len(analyzer.threads) + 1]
          ELSE analyzer
    /\ call' = [op |-> "start"]
    /\ UNCHANGED <<namingVars, storeVars, reviewVars, args, statistics>>

\* RealTimeAnalyzer.stop up to the join: self.running = False
StopBegin ==
    /\ analyzer.caller = "idle"
    /\ analyzer' = [analyzer EXCEPT
                      !.running = FALSE,
                      !.caller = IF analyzer.worker_thread # 0
                                 THEN "join" ELSE "idle"]
    /\ call' = [op |-> "stop"]
    /\ UNCHANGED <<namingVars, storeVars, reviewVars, args, statistics>>

\* self.worker_thread.join(timeout=1) returns because the thread ended
StopJoined ==
    /\ analyzer.caller = "join"
    /\ analyzer.threads[analyzer.worker_thread].pc = "done"
    /\ analyzer' = [analyzer EXCEPT !.caller = "idle"]
    /\ call' = [op |-> "stop", joined |-> TRUE]
    /\ UNCHANGED <<namingVars, storeVars, reviewVars, args, statistics>>

\* self.worker_thread.join(timeout=1) returns because the second passed
\* while the thread was in review_code
StopJoinTimeout ==
    /\ analyzer.caller = "join"
    /\ analyzer.threads[analyzer.worker_thread].pc = "review"
    /\ analyzer' = [analyzer EXCEPT !.caller = "idle"]
    /\ call' = [op |-> "stop", joined |-> FALSE]
    /\ UNCHANGED <<namingVars, storeVars, reviewVars, args, statistics>>

\* RealTimeAnalyzer.analyze: the request is dropped when the last accepted
\* one is less than _min_interval old (throttled), and queued otherwise
AnalyzeRequest(throttled) ==
    /\ analyzer.caller = "idle"
    /\ analyzer.requests < MaxRequests
    /\ analyzer' =
          IF throttled
          THEN [analyzer EXCEPT !.requests = @ + 1]
          ELSE [analyzer EXCEPT
                  !.requests = @ + 1,
                  !.analysis_queue = Append(@, analyzer.requests + 1)]
    /\ call' = [op |-> "analyze", request_id |-> analyzer.requests + 1,
                accepted |-> ~throttled]
    /\ UNCHANGED <<namingVars, storeVars, reviewVars, args, statistics>>

\* RealTimeAnalyzer.get_results with a result waiting
GetResults ==
    /\ analyzer.caller = "idle"
    /\ analyzer.result_queue # <<>>
    /\ analyzer' = [analyzer EXCEPT
                      !.result_queue = Tail(@),
                      !.received = Append(@, Head(analyzer.result_queue))]
    /\ call' = [op |-> "get_results",
                result |-> Head(analyzer.result_queue)]
    /\ UNCHANGED <<namingVars, storeVars, reviewVars, args, statistics>>

\* _worker: while self.running
WorkerTest(t) ==
    /\ analyzer.threads[t].pc = "while"
    /\ analyzer' = [analyzer EXCEPT
                      !.threads[t].pc = IF analyzer.running
                                        THEN "get" ELSE "done"]
    /\ UNCHANGED <<namingVars, storeVars, reviewVars, args, call, statistics>>

\* _worker: self.analysis_queue.get(timeout=0.1) returns a request, or
\* raises queue.Empty and the loop continues
WorkerGet(t) ==
    /\ analyzer.threads[t].pc = "get"
    /\ analyzer' =
          IF analyzer.analysis_queue # <<>>
          THEN [analyzer EXCEPT
                  !.threads[t] = Worker("review", Head(analyzer.analysis_queue)),
                  !.analysis_queue = Tail(@)]
          ELSE [analyzer EXCEPT !.threads[t].pc = "while"]
    /\ UNCHANGED <<namingVars, storeVars, reviewVars, args, call, statistics>>

\* _worker: review_code, the result built from it and result_queue.put
WorkerPut(t) ==
    /\ analyzer.threads[t].pc = "review"
    /\ analyzer' = [analyzer EXCEPT
                      !.threads[t] = Worker("while", 0),
                      !.result_queue = Append(@, analyzer.threads[t].item)]
    /\ UNCHANGED <<namingVars, storeVars, reviewVars, args, call, statistics>>

NextRealTime ==
    \/ Start
    \/ StopBegin
    \/ StopJoined
    \/ StopJoinTimeout
    \/ \E throttled \in BOOLEAN : AnalyzeRequest(throttled)
    \/ GetResults
    \/ \E t \in 1..Len(analyzer.threads) : WorkerTest(t)
    \/ \E t \in 1..Len(analyzer.threads) : WorkerGet(t)
    \/ \E t \in 1..Len(analyzer.threads) : WorkerPut(t)

SpecRealTime == InitRealTime /\ [][NextRealTime]_vars

\* the results in the order they were put on the result queue
ResultsPut(a) == a.received \o a.result_queue

\* C29: in every state reached by start, stop and analyze calls and the
\* workers' steps, at most one worker thread is live, and the results were
\* put on the result queue in the order their requests were accepted.
C29_SingleWorkerInOrder ==
    /\ Cardinality(LiveWorkers(analyzer)) <= 1
    /\ \A i, j \in 1..Len(ResultsPut(analyzer)) :
          i < j => ResultsPut(analyzer)[i] < ResultsPut(analyzer)[j]


(***************************************************************************)
(* StatisticsManager (statistics_manager.py 73-182, 368-375): the current  *)
(* session and the counters of self.stats that record_transformation       *)
(* updates before the time-based statistics.  A dict is a function on its  *)
(* keys; reading a key it does not hold raises KeyError.                   *)
(***************************************************************************)
MaxRecords == 2
MaxIssues == 2

\* TransformationRecord.lines_of_code: len(self.original_code.splitlines())
RECURSIVE LinesOfCode(_)
LinesOfCode(original_code) ==
    IF original_code = <<>> THEN 0
    ELSE IF Head(original_code) = "\n" \/ Len(original_code) = 1
         THEN 1 + LinesOfCode(Tail(original_code))
         ELSE LinesOfCode(Tail(original_code))

\* TransformationRecord.total_changes
TotalChanges(record) == record.issues_found

\* dataclasses.asdict(record): the fields of the dataclass, none of its
\* properties
RecordAsDict(record) ==
    [timestamp |-> record.timestamp, file_name |-> record.file_name,
     file_path |-> record.file_path, original_code |-> record.original_code,
     transformed_code |-> record.transformed_code,
     issues_found |-> record.issues_found,
     confidence_score |-> record.confidence_score,
     transformation_details |-> record.transformation_details]

\* d.get(k, default)
GetOr(d, k, default) == IF k \in DOMAIN d THEN d[k] ELSE default
\* d[k] = d.get(k, 0) + n
Counted(d, k, n) == (k :> (GetOr(d, k, 0) + n)) @@ d
KeyError(key) == [ok |-> FALSE, error |-> "KeyError", key |-> key]

\* the loop over record.changes_by_type.items() (lines 158-161)
RECURSIVE IssueTypesFrom(_, _)
IssueTypesFrom(distribution, details) ==
    IF details = <<>> THEN distribution
    ELSE IssueTypesFrom(
            Counted(distribution, GetOr(Head(details), "reason", "Unknown"), 1),
            Tail(details))

\* the loop over record.variables_transformed (lines 164-170), which
\* raises KeyError at a detail without 'original'
RECURSIVE CommonFrom(_, _)
CommonFrom(common, details) ==
    IF details = <<>> THEN [ok |-> TRUE, common |-> common]
    ELSE IF "original" \notin DOMAIN Head(details)
         THEN [ok |-> FALSE, common |-> common]
         ELSE CommonFrom(
                 Counted(common,
                         <<Head(details).original,
                           GetOr(Head(details), "suggested",
                                 GetOr(Head(details), "suggestion", ""))>>,
                         1),
                 Tail(details))

\* StatisticsManager.__init__ without a statistics file
NewStatisticsManager ==
    [current_session |-> [start_time |-> "start", transformations |-> <<>>],
     stats |-> [total_transformations |-> 0, total_changes |-> 0,
                total_lines_processed |-> 0, total_files |-> 0,
                total_lines |-> 0, issue_type_distribution |-> <<>>,
                common_transformations |-> <<>>]]

\* StatisticsManager.record_transformation up to the common transformations
RecordTransformationResult(s, record) ==
    [current_session |->
        [s.current_session EXCEPT !.transformations = Append(@, RecordAsDict(record))],
     stats |->
        [total_transformations |-> s.stats.total_transformations + 1,
         total_changes |-> s.stats.total_changes + TotalChanges(record),
         total_lines_processed |->
            s.stats.total_lines_processed + LinesOfCode(record.original_code),
         total_files |-> s.stats.total_files + 1,
         total_lines |-> s.stats.total_lines + LinesOfCode(record.original_code),
         issue_type_distribution |->
            IssueTypesFrom(s.stats.issue_type_distribution,
                           record.transformation_details),
         common_transformations |->
            CommonFrom(s.stats.common_transformations,
                       record.transformation_details).common]]

\* sum(t[key] for t in transformations)
RECURSIVE SumOfItems(_, _)
SumOfItems(transformations, key) ==
    IF transformations = <<>> THEN 0
    ELSE Head(transformations)[key] + SumOfItems(Tail(transformations), key)

\* StatisticsManager.get_session_summary
GetSessionSummaryResult(s) ==
    LET transformations == s.current_session.transformations
        Missing(key) == \E i \in 1..Len(transformations) :
                           key \notin DOMAIN transformations[i]
    IN IF Missing("total_changes") THEN KeyError("total_changes")
       ELSE IF Missing("lines_of_code") THEN KeyError("lines_of_code")
       ELSE [ok |-> TRUE,
             summary |->
                [start_time |-> s.current_session.start_time,
                 transformations_count |-> Len(transformations),
                 total_changes |-> SumOfItems(transformations, "total_changes"),
                 total_lines |-> SumOfItems(transformations, "lines_of_code")]]

\* the records given to record_transformation
DetailLists ==
    { <<>>,
      << [original |-> "usr", suggested |-> "user", reason |-> "abbreviation"] >>,
      << [name |-> "usr"] >> }
OriginalCodes == { <<>>, <<"x">>, <<"x", "\n", "y", "\n">> }
TransformationRecords ==
    [timestamp : {"2026-01-01T00:00:00"}, file_name : {"a.py"},
     file_path : {"/a.py"}, original_code : OriginalCodes,
     transformed_code : {<<>>}, issues_found : 0..MaxIssues,
     confidence_score : {90}, transformation_details : DetailLists]

InitStatistics ==
    /\ terms = DefaultTerms
    /\ variable_name = NoName
    /\ target_convention = SNAKE_CASE
    /\ manager = NoManager
    /\ code = NoCode
    /\ runs = <<>>
    /\ args = NoArgs
    /\ call = NoCall
    /\ analyzer = NoAnalyzer
    /\ statistics = NewStatisticsManager

RecordTransformation(record) ==
    /\ Len(statistics.current_session.transformations) < MaxRecords
    /\ statistics' = RecordTransformationResult(statistics, record)
    /\ call' = [op |-> "record_transformation",
                raised |-> ~CommonFrom(statistics.stats.common_transformations,
                                       record.transformation_details).ok]
    /\ UNCHANGED <<namingVars, storeVars, reviewVars, args, analyzer>>

GetSessionSummary ==
    /\ call' = [op |-> "get_session_summary",
                result |-> GetSessionSummaryResult(statistics)]
    /\ UNCHANGED <<namingVars, storeVars, reviewVars, args, serviceVars>>

NextStatistics ==
    \/ \E record \in TransformationRecords : RecordTransformation(record)
    \/ GetSessionSummary

SpecStatistics == InitStatistics /\ [][NextStatistics]_vars

\* the sums of the issue counts and of the line counts of the records
RECURSIVE SessionIssues(_)
SessionIssues(transformations) ==
    IF transformations = <<>> THEN 0
    ELSE Head(transformations).issues_found
            + SessionIssues(Tail(transformations))
RECURSIVE SessionLines(_)
SessionLines(transformations) ==
    IF transformations = <<>> THEN 0
    ELSE LinesOfCode(Head(transformations).original_code)
            + SessionLines(Tail(transformations))

\* C30: after any record_transformation calls, get_session_summary returns
\* without error; its transformations_count is the number of records of
\* the session, and its total_changes and total_lines are the sums of the
\* records' issue counts and line counts.
C30_SessionSummary ==
    call.op = "get_session_summary" =>
       /\ call.result.ok
       /\ call.result.summary.transformations_count
             = Len(statistics.current_session.transformations)
       /\ call.result.summary.total_changes
             = SessionIssues(statistics.current_session.transformations)
       /\ call.result.summary.total_lines
             = SessionLines(statistics.current_session.transformations)

=============================================================================
